---- MODULE Spec2Model ----
(***************************************************************************)
(* Rate schedule evaluation engine of the EVready Playbook utility bill    *)
(* estimator: src/app.py (calculate_bill and its helpers) and              *)
(* src/evready_playbook/bill_calculator.py.                                *)
(*                                                                         *)
(* Numbers.  The code computes in floating point; the model computes the   *)
(* same expressions exactly, over integers.  Quantities (kWh, kW, days,    *)
(* kV) are integers.  Money is counted in units of 1/10000 dollar, so a    *)
(* rate of 0.12 $/kWh is 1200; the rates and quantities of the input sets  *)
(* are chosen so that every division the code performs is exact.           *)
(*                                                                         *)
(* Optional values.  Python's None is the empty sequence, a present value  *)
(* v the one-element sequence <<v>>.  An unset string is "".               *)
(***************************************************************************)
EXTENDS Integers, Sequences, FiniteSets, TLC

VARIABLES
    now,    \* the wall clock datetime.now() reads: [date, tod]
    inc,    \* frame of calculate_incremental_charges (src/app.py)
    flt,    \* last evaluation of the applicability helpers
    call,   \* last call of calculate_bill (src/app.py)
    dist,   \* last call of estimate_time_distribution (src/app.py)
    cur,    \* last call of calculate_current_bill (bill_calculator.py)
    twalk,  \* last run of the tiered loops of bill_calculator.py
    tin,    \* last run of handle_tou_inputs (src/ui_components.py)
    ses     \* st.session_state and the widgets of the bill-estimation page

vars == <<now, inc, flt, call, dist, cur, twalk, tin, ses>>

None == <<>>
Some(v) == <<v>>
IsNone(x) == x = <<>>
Val(x) == x[1]

Min(a, b) == IF a <= b THEN a ELSE b
Max(a, b) == IF a >= b THEN a ELSE b

RECURSIVE SumSeq(_)
SumSeq(s) == IF s = <<>> THEN 0 ELSE Head(s) + SumSeq(Tail(s))

(***************************************************************************)
(* Bounds of the model.                                                    *)
(***************************************************************************)
MaxTiers == 3       \* longest tier list handed to the tier walk
MaxRows == 3        \* most component rows in one schedule

(***************************************************************************)
(* calculate_incremental_charges (src/app.py:149-186).                     *)
(* A tier entry is [start, end, Rate]: start is StartKWh or StepMin, end   *)
(* is EndKWh or StepMax (None for an open-ended tier), Rate is the field   *)
(* named by rate_field (None when the column is NULL).                     *)
(***************************************************************************)

\* sorted(incremental_entries, key=start): Python's sort is stable, so an
\* entry goes after every entry whose key is <= its own.
RECURSIVE InsertByStart(_, _)
InsertByStart(e, s) ==
    IF s = <<>> THEN <<e>>
    ELSE IF s[Len(s)].start <= e.start THEN Append(s, e)
    ELSE Append(InsertByStart(e, SubSeq(s, 1, Len(s) - 1)), s[Len(s)])

RECURSIVE SortByStart(_)
SortByStart(s) ==
    IF s = <<>> THEN <<>>
    ELSE InsertByStart(s[Len(s)], SortByStart(SubSeq(s, 1, Len(s) - 1)))

\* A variant of the tier usage that gives a tier nothing once the usage
\* exceeds its width; monotonicity is checked to tell it from the code's.
TierUsageWithinTierOnly(remaining_usage, entry) ==
    IF IsNone(entry.end) THEN remaining_usage
    ELSE IF remaining_usage > Val(entry.end) - entry.start THEN 0
    ELSE remaining_usage

\* lines 167-171: the usage billed in one tier
TierUsage(remaining_usage, entry) ==
    IF IsNone(entry.end) THEN remaining_usage
    ELSE Min(remaining_usage, Val(entry.end) - entry.start)

\* lines 151-156: the frame on entry to the loop
IncEnter(usage, incremental_entries) ==
    [pc |-> "loop",
     usage |-> usage,
     incremental_entries |-> incremental_entries,
     sorted_entries |-> SortByStart(incremental_entries),
     i |-> 1,
     remaining_usage |-> usage,
     total_charge |-> 0]

\* the ways one pass of the loop at lines 158-184 can go
IncExhausted(f) == f.pc = "loop" /\ f.i > Len(f.sorted_entries)
IncBreaks(f) ==
    /\ f.pc = "loop" /\ f.i <= Len(f.sorted_entries)
    /\ TierUsage(f.remaining_usage, f.sorted_entries[f.i]) <= 0
IncRaises(f) ==
    /\ f.pc = "loop" /\ f.i <= Len(f.sorted_entries)
    /\ TierUsage(f.remaining_usage, f.sorted_entries[f.i]) > 0
    /\ IsNone(f.sorted_entries[f.i].Rate)
IncCharges(f) ==
    /\ f.pc = "loop" /\ f.i <= Len(f.sorted_entries)
    /\ TierUsage(f.remaining_usage, f.sorted_entries[f.i]) > 0
    /\ ~IsNone(f.sorted_entries[f.i].Rate)

\* lines 158-186: one pass of the loop, or the return after it.  A NULL rate
\* is returned by entry.get(rate_field, 0) as None, and line 178 multiplies
\* by it: TypeError.
IncStep(f) ==
    IF IncExhausted(f) \/ IncBreaks(f) THEN [f EXCEPT !.pc = "done"]
    ELSE IF IncRaises(f) THEN [f EXCEPT !.pc = "TypeError"]
    ELSE LET entry == f.sorted_entries[f.i]
             tier_usage == TierUsage(f.remaining_usage, entry)
             rate == Val(entry.Rate)
             left == f.remaining_usage - tier_usage
         IN [f EXCEPT !.total_charge = @ + tier_usage * rate,
                      !.remaining_usage = left,
                      !.i = @ + 1,
                      !.pc = IF left <= 0 THEN "done" ELSE "loop"]

RECURSIVE IncRun(_)
IncRun(f) == IF f.pc # "loop" THEN f ELSE IncRun(IncStep(f))

\* calculate_incremental_charges as one call: the final frame, whose pc is
\* "done" (total_charge is returned) or "TypeError" (the call raises)
calculate_incremental_charges(usage, incremental_entries) ==
    IncRun(IncEnter(usage, incremental_entries))

(***************************************************************************)
(* Component rows.  A row of any rate table is a record with every column  *)
(* the calculation reads; a column a table does not have is unset.         *)
(*   table      the table the row lives in                                 *)
(*   Rate       Rate, RatekWh, RatekW, RatekVAR, PercentageRate or TaxRate *)
(*              (None: the column is NULL)                                 *)
(*   ChargeUnit, Basis                  strings, "" when unset             *)
(*   start, end                         the tier boundaries                *)
(*   StartTime, EndTime                 "HH:MM" strings, "" when unset     *)
(*   MinKV, MaxKV, Pending, Season, StartDate, EndDate   applicability     *)
(*   ChargeType, TimeOfDay              columns bill_calculator.py reads   *)
(***************************************************************************)
BlankRow(table) ==
    [table |-> table, Rate |-> None, ChargeUnit |-> "", Basis |-> "",
     start |-> 0, end |-> None, StartTime |-> "", EndTime |-> "",
     MinKV |-> None, MaxKV |-> None, Pending |-> FALSE, Season |-> "",
     StartDate |-> "", EndDate |-> "", ChargeType |-> None, TimeOfDay |-> "",
     Min |-> None, Max |-> None]

(***************************************************************************)
(* Dates and times.  A date is the number 100*month + day of one year; a   *)
(* datetime is [date, tod] with tod the seconds since midnight.            *)
(***************************************************************************)
DateStrings ==
    {"2025-01-15", "2025-06-01", "2025-07-15", "2025-08-31", "2025-10-01"}

\* datetime.strptime(s, '%Y-%m-%d'): the date at 00:00:00
strptime(s) ==
    [date |-> CASE s = "2025-01-15" -> 115
                [] s = "2025-06-01" -> 601
                [] s = "2025-07-15" -> 715
                [] s = "2025-08-31" -> 831
                [] s = "2025-10-01" -> 1001,
     tod |-> 0]

\* the order of datetime values
DtLeq(a, b) == a.date < b.date \/ (a.date = b.date /\ a.tod <= b.tod)
DtLess(a, b) == DtLeq(a, b) /\ a # b

MonthOf(dt) == dt.date \div 100

\* str.lower() on the season names that occur
lower(s) ==
    CASE s \in {"Summer", "SUMMER", "summer"} -> "summer"
      [] s \in {"Winter", "WINTER", "winter"} -> "winter"
      [] s \in {"Spring", "spring"} -> "spring"
      [] s \in {"Fall", "FALL", "fall"} -> "fall"
      [] OTHER -> s

(***************************************************************************)
(* The applicability helpers of src/app.py.                                *)
(***************************************************************************)
\* A variant of is_applicable whose voltage bounds are exclusive; the
\* voltage filter is checked to tell it from the code's.
is_applicable_exclusive(record, voltage) ==
    IF /\ ~IsNone(record.MinKV) /\ ~IsNone(record.MaxKV) /\ ~IsNone(voltage)
       /\ ~(Val(record.MinKV) < Val(voltage) /\ Val(voltage) < Val(record.MaxKV))
    THEN FALSE
    ELSE IF record.Pending THEN FALSE
    ELSE TRUE

\* is_applicable (lines 29-44)
is_applicable(record, voltage) ==
    IF /\ ~IsNone(record.MinKV) /\ ~IsNone(record.MaxKV) /\ ~IsNone(voltage)
       /\ ~(Val(record.MinKV) <= Val(voltage) /\ Val(voltage) <= Val(record.MaxKV))
    THEN FALSE
    ELSE IF record.Pending THEN FALSE
    ELSE TRUE

\* get_current_season (lines 46-58), reading the clock
get_current_season(clock) ==
    LET current_month == MonthOf(clock)
    IN IF 3 <= current_month /\ current_month <= 5 THEN "Spring"
       ELSE IF 6 <= current_month /\ current_month <= 8 THEN "Summer"
       ELSE IF 9 <= current_month /\ current_month <= 11 THEN "Fall"
       ELSE "Winter"

\* is_in_season (lines 60-67)
is_in_season(record, clock) ==
    IF record.Season = "" THEN TRUE
    ELSE lower(record.Season) = lower(get_current_season(clock))

\* is_in_date_range (lines 69-84)
is_in_date_range(record, clock) ==
    IF record.StartDate = "" \/ record.EndDate = "" THEN TRUE
    ELSE LET start_date == strptime(record.StartDate)
             end_date == strptime(record.EndDate)
             current_date == clock
         IN DtLeq(start_date, current_date) /\ DtLeq(current_date, end_date)

(***************************************************************************)
(* The season checks of src/evready_playbook/bill_calculator.py.           *)
(***************************************************************************)
summer_months == {"June", "July", "August", "September"}
winter_months == {"December", "January", "February", "March"}

\* lines 372-380 (and 124-131, 154-161, 415-423, 447-455): TRUE when the
\* tier or period is not skipped by the `continue`
season_applies(season, billing_month) ==
    IF season # "" /\ billing_month # ""
    THEN ~(\/ (lower(season) = "summer" /\ billing_month \notin summer_months)
           \/ (lower(season) = "winter" /\ billing_month \notin winter_months))
    ELSE TRUE

(***************************************************************************)
(* estimate_time_distribution (src/app.py:86-147).                         *)
(***************************************************************************)
\* int(t.split(':')[0]) on the "HH:MM" strings that occur
HourOf(t) ==
    CASE t = "00:00" -> 0
      [] t = "08:00" -> 8
      [] t = "16:00" -> 16
      [] t = "22:00" -> 22
      [] t = "24:00" -> 24

\* A variant of the first loop's hours without the overnight correction; the
\* allocation formula is checked to tell it from the code's.
HoursCountedNoOvernight(entry) ==
    IF entry.StartTime = "" \/ entry.EndTime = "" THEN 24
    ELSE HourOf(entry.EndTime) - HourOf(entry.StartTime)

\* lines 102-117: the hours of one entry, as the first loop counts them
HoursCounted(entry) ==
    IF entry.StartTime = "" \/ entry.EndTime = "" THEN 24
    ELSE LET hours == HourOf(entry.EndTime) - HourOf(entry.StartTime)
         IN IF hours <= 0 THEN hours + 24 ELSE hours

\* A variant of the second loop's hours that fills a missing time with
\* '00:00' or '24:00'; conservation is checked to tell it from the code's.
HoursSharedDefaults(entry) ==
    LET start_time == IF entry.StartTime = "" THEN "00:00" ELSE entry.StartTime
        end_time == IF entry.EndTime = "" THEN "24:00" ELSE entry.EndTime
        hours == HourOf(end_time) - HourOf(start_time)
    IN IF hours <= 0 THEN hours + 24 ELSE hours

\* lines 125-135: the hours of one entry, as the second loop computes them
\* (entry.get returns None for a NULL column, which is not a str)
HoursShared(entry) ==
    IF entry.StartTime # "" /\ entry.EndTime # ""
    THEN LET hours == HourOf(entry.EndTime) - HourOf(entry.StartTime)
         IN IF hours <= 0 THEN hours + 24 ELSE hours
    ELSE 24

\* lines 99-119
TotalHours(time_entries) ==
    SumSeq([k \in 1..Len(time_entries) |-> HoursCounted(time_entries[k])])

\* lines 137-139: total_usage * (hours / total_hours), and what the exact
\* division leaves over
PeriodUsage(total_usage, hours, total_hours) ==
    IF total_hours > 0 THEN (total_usage * hours) \div total_hours
    ELSE total_usage
PeriodUsageRest(total_usage, hours, total_hours) ==
    IF total_hours > 0 THEN (total_usage * hours) % total_hours ELSE 0

estimate_time_distribution(total_usage, time_entries) ==
    IF time_entries = <<>>
    THEN << [usage |-> total_usage, hours |-> 0, label |-> "All Hours"] >>
    ELSE LET total_hours == TotalHours(time_entries)
         IN [k \in 1..Len(time_entries) |->
                [usage |-> PeriodUsage(total_usage,
                                       HoursShared(time_entries[k]), total_hours),
                 hours |-> HoursShared(time_entries[k]),
                 label |-> "period"]]

(***************************************************************************)
(* calculate_bill (src/app.py:188-443).                                    *)
(* A schedule is the sequence of its component rows; a query returns the   *)
(* rows of one table, in order.                                            *)
(***************************************************************************)
RECURSIVE Query(_, _)
Query(schedule, table) ==
    IF schedule = <<>> THEN <<>>
    ELSE IF Head(schedule).table = table
         THEN <<Head(schedule)>> \o Query(Tail(schedule), table)
         ELSE Query(Tail(schedule), table)

RECURSIVE Filter(_, _)
Filter(rows, keep) ==
    IF rows = <<>> THEN <<>>
    ELSE IF keep[Head(rows)] THEN <<Head(rows)>> \o Filter(Tail(rows), keep)
         ELSE Filter(Tail(rows), keep)

\* rate = charge.get(<rate column>, 0); if rate is None: rate = 0
RateOf(charge) == IF IsNone(charge.Rate) THEN 0 ELSE Val(charge.Rate)

\* (percentage / 100) * base_amount, and what the exact division leaves over
PercentOf(percentage, base_amount) == (percentage * base_amount) \div 100
PercentRest(percentage, base_amount) == (percentage * base_amount) % 100

\* the filter of lines 226, 239-240, 250-251, 278, 291-292, 302-303
InEffect(charge, voltage, clock) ==
    /\ is_applicable(charge, voltage)
    /\ is_in_season(charge, clock)
    /\ is_in_date_range(charge, clock)

\* lines 207-215
ServiceAmount(charge, billing_days) ==
    IF charge.ChargeUnit = "per_day" THEN RateOf(charge) * billing_days
    ELSE IF charge.ChargeUnit = "per_bill" THEN RateOf(charge)
    ELSE RateOf(charge)

\* lines 359-366
OtherAmount(charge, usage_kwh, demand_kw, billing_days) ==
    IF charge.ChargeUnit = "per_kwh" THEN RateOf(charge) * usage_kwh
    ELSE IF charge.ChargeUnit = "per_kw" THEN RateOf(charge) * demand_kw
    ELSE IF charge.ChargeUnit = "per_day" THEN RateOf(charge) * billing_days
    ELSE RateOf(charge)

\* lines 238-243 and 265-267 (290-295 and 333-335 for demand): the flat sum,
\* replaced by the tiered charge when there are tiers in effect, replaced by
\* the time-of-use total when that is positive
ResolveTotal(flat_total, has_tiers, tiered_total, tou_total) ==
    LET after_tiers == IF has_tiers THEN tiered_total ELSE flat_total
    IN IF tou_total > 0 THEN tou_total ELSE after_tiers

\* lines 319-321: kvar_demand in thousandths of a kVAR.  power_factor is the
\* literal 0.9, and tan(acos(0.9)) = 0.484 to three places.
TanAcosMilli == 484
KvarDemandMilli(demand_kw) == demand_kw * TanAcosMilli

\* line 331: rate * kvar_demand, and what the exact division leaves over
ReactiveAmount(charge, demand_kw) ==
    (RateOf(charge) * KvarDemandMilli(demand_kw)) \div 1000
ReactiveRest(charge, demand_kw) ==
    (RateOf(charge) * KvarDemandMilli(demand_kw)) % 1000

\* A variant of the percentage base that ignores the basis; the percentage
\* basis is checked to tell it from the code's.
PercentageBaseSubtotalOnly(basis, charges, subtotal) == subtotal

\* lines 386-396
PercentageBase(basis, charges, subtotal) ==
    IF basis = "energy_only" THEN charges.Energy
    ELSE IF basis = "demand_only" THEN charges.Demand
    ELSE IF basis = "service_only" THEN charges.ServiceCharge
    ELSE subtotal

\* A variant of the tax base whose widest basis leaves the percentage
\* charges out; the tax basis is checked to tell it from the code's.
TaxBaseBeforePercentages(tax_basis, charges, subtotal, percentage_total) ==
    IF tax_basis = "energy_only" THEN charges.Energy
    ELSE IF tax_basis = "demand_only" THEN charges.Demand
    ELSE IF tax_basis = "service_only" THEN charges.ServiceCharge
    ELSE subtotal

\* lines 415-427
TaxBase(tax_basis, charges, subtotal, percentage_total) ==
    IF tax_basis = "energy_only" THEN charges.Energy
    ELSE IF tax_basis = "demand_only" THEN charges.Demand
    ELSE IF tax_basis = "service_only" THEN charges.ServiceCharge
    ELSE IF tax_basis = "subtotal" THEN subtotal
    ELSE subtotal + percentage_total

\* line 372: sum(charges.values()) when charges holds the four categories
Subtotal(charges) ==
    charges.ServiceCharge + charges.Energy + charges.Demand + charges.OtherCharges

\* A variant of the total that leaves the percentage charges out; the bill
\* total is checked to tell it from the code's.
TotalCostWithoutPercentages(subtotal, percentage_total, tax_total) ==
    subtotal + tax_total

\* line 435
TotalCost(subtotal, percentage_total, tax_total) ==
    subtotal + percentage_total + tax_total

\* The call as a whole.  The frame keeps the locals of the function; result
\* is what it returns: [breakdown, total_cost], or None after the except
\* clause of lines 441-443.  items lists, per row that was charged, the
\* amount added for it; exact tells that no division left a remainder.
calculate_bill(schedule, usage_kwh, demand_kw, billing_days, voltage, clock) ==
    LET applicable == [r \in {schedule[k] : k \in 1..Len(schedule)} |->
                          is_applicable(r, voltage)]
        in_effect == [r \in {schedule[k] : k \in 1..Len(schedule)} |->
                          InEffect(r, voltage, clock)]
        Sum(rows, amount) == SumSeq([k \in 1..Len(rows) |-> amount[rows[k]]])
        Items(rows, amount) ==
            [k \in 1..Len(rows) |-> [row |-> rows[k], amount |-> amount[rows[k]]]]
        all == {schedule[k] : k \in 1..Len(schedule)}
        \* 1. service charges
        service_rows == Filter(Query(schedule, "ServiceCharge_Table"), applicable)
        service_amount == [r \in all |-> ServiceAmount(r, billing_days)]
        service_total == Sum(service_rows, service_amount)
        \* 2. energy charges
        energy_rows == Filter(Query(schedule, "Energy_Table"), in_effect)
        energy_amount == [r \in all |-> RateOf(r) * usage_kwh]
        inc_energy == Filter(Query(schedule, "IncrementalEnergy_Table"), in_effect)
        inc_energy_walk == calculate_incremental_charges(usage_kwh, inc_energy)
        tou_energy == Filter(Query(schedule, "EnergyTime_Table"), in_effect)
        distributed_usage == estimate_time_distribution(usage_kwh, tou_energy)
        tou_energy_total ==
            SumSeq([k \in 1..Len(tou_energy) |->
                        distributed_usage[k].usage * RateOf(tou_energy[k])])
        tou_energy_rest ==
            SumSeq([k \in 1..Len(tou_energy) |->
                        PeriodUsageRest(usage_kwh, HoursShared(tou_energy[k]),
                                        TotalHours(tou_energy))])
        energy_total ==
            ResolveTotal(Sum(energy_rows, energy_amount), inc_energy # <<>>,
                         inc_energy_walk.total_charge, tou_energy_total)
        \* 3. demand charges
        demand_rows == Filter(Query(schedule, "Demand_Table"), in_effect)
        demand_amount == [r \in all |-> RateOf(r) * demand_kw]
        inc_demand == Filter(Query(schedule, "IncrementalDemand_Table"), in_effect)
        inc_demand_walk == calculate_incremental_charges(demand_kw, inc_demand)
        tou_demand == Filter(Query(schedule, "DemandTime_Table"), in_effect)
        tou_demand_total == Sum(tou_demand, demand_amount)
        reactive_rows ==
            IF demand_kw > 0
            THEN Filter(Query(schedule, "ReactiveDemand_Table"), applicable)
            ELSE <<>>
        reactive_amount == [r \in all |-> ReactiveAmount(r, demand_kw)]
        reactive_demand_total == Sum(reactive_rows, reactive_amount)
        reactive_rest ==
            SumSeq([k \in 1..Len(reactive_rows) |->
                        ReactiveRest(reactive_rows[k], demand_kw)])
        demand_total ==
            ResolveTotal(Sum(demand_rows, demand_amount), inc_demand # <<>>,
                         inc_demand_walk.total_charge, tou_demand_total)
            + reactive_demand_total
        \* 4. other charges
        other_rows == Filter(Query(schedule, "OtherCharges_Table"), applicable)
        other_amount == [r \in all |-> OtherAmount(r, usage_kwh, demand_kw, billing_days)]
        other_total == Sum(other_rows, other_amount)
        charges == [ServiceCharge |-> service_total, Energy |-> energy_total,
                    Demand |-> demand_total, OtherCharges |-> other_total]
        subtotal == Subtotal(charges)
        \* 5. percentage-based charges
        percentage_rows == Filter(Query(schedule, "Percentages_Table"), applicable)
        percentage_amount ==
            [r \in all |-> PercentOf(RateOf(r), PercentageBase(r.Basis, charges, subtotal))]
        percentage_total == Sum(percentage_rows, percentage_amount)
        percentage_rest ==
            SumSeq([k \in 1..Len(percentage_rows) |->
                        PercentRest(RateOf(percentage_rows[k]),
                                    PercentageBase(percentage_rows[k].Basis,
                                                   charges, subtotal))])
        \* 6. taxes
        tax_rows == Filter(Query(schedule, "TaxInfo_Table"), applicable)
        tax_amount ==
            [r \in all |->
                PercentOf(RateOf(r), TaxBase(r.Basis, charges, subtotal, percentage_total))]
        tax_total == Sum(tax_rows, tax_amount)
        tax_rest ==
            SumSeq([k \in 1..Len(tax_rows) |->
                        PercentRest(RateOf(tax_rows[k]),
                                    TaxBase(tax_rows[k].Basis, charges, subtotal,
                                            percentage_total))])
        \* 7. total
        total_cost == TotalCost(subtotal, percentage_total, tax_total)
        raised == \/ (inc_energy # <<>> /\ inc_energy_walk.pc = "TypeError")
                  \/ (inc_demand # <<>> /\ inc_demand_walk.pc = "TypeError")
    IN IF raised
       THEN [pc |-> "done", schedule |-> schedule, usage_kwh |-> usage_kwh,
             demand_kw |-> demand_kw, billing_days |-> billing_days,
             voltage |-> voltage, clock |-> clock, result |-> None]
       ELSE [pc |-> "done", schedule |-> schedule, usage_kwh |-> usage_kwh,
             demand_kw |-> demand_kw, billing_days |-> billing_days,
             voltage |-> voltage, clock |-> clock,
             subtotal |-> subtotal,
             percentage_items |-> Items(percentage_rows, percentage_amount),
             tax_items |-> Items(tax_rows, tax_amount),
             exact |-> tou_energy_rest + reactive_rest + percentage_rest + tax_rest = 0,
             result |-> Some([breakdown |->
                                 [Service_Charges |-> service_total,
                                  Energy_Charges |-> energy_total,
                                  Demand_Charges |-> demand_total,
                                  Other_Charges |-> other_total,
                                  Percentage_based_Charges |-> percentage_total,
                                  Taxes |-> tax_total],
                              total_cost |-> total_cost])]

(***************************************************************************)
(* Inputs of the tier walk.                                                *)
(***************************************************************************)
TierUsages == {0, 300, 500, 800}
TierStarts == {0, 500}
TierEnds == {None, Some(0), Some(500)}
TierRates == {None, Some(1000), Some(1500)}
TierEntries == [start : TierStarts, end : TierEnds, Rate : TierRates]

RECURSIVE SeqsUpTo(_, _)
SeqsUpTo(S, n) ==
    IF n = 0 THEN {<<>>}
    ELSE LET shorter == SeqsUpTo(S, n - 1)
         IN shorter \cup {Append(s, e) : s \in shorter, e \in S}

TierLists == SeqsUpTo(TierEntries, MaxTiers) \ {<<>>}

IncIdle == [pc |-> "idle"]
FltIdle == [pc |-> "idle"]
CallIdle == [pc |-> "idle"]
DistIdle == [pc |-> "idle"]
CurIdle == [pc |-> "idle"]
WalkIdle == [pc |-> "idle"]
TinIdle == [pc |-> "idle"]
NoSession == [pc |-> "none"]
Epoch == [date |-> 115, tod |-> 0]

(***************************************************************************)
(* Specification of the tier walk: every call, pass by pass.               *)
(***************************************************************************)
TierInit ==
    /\ now = Epoch
    /\ flt = FltIdle
    /\ call = CallIdle
    /\ dist = DistIdle
    /\ cur = CurIdle
    /\ twalk = WalkIdle
    /\ tin = TinIdle
    /\ ses = NoSession
    /\ \E usage \in TierUsages, entries \in TierLists :
           inc = IncEnter(usage, entries)

TierCharge ==
    /\ IncCharges(inc)
    /\ inc' = IncStep(inc)
    /\ UNCHANGED <<now, flt, call, dist, cur, twalk, tin, ses>>

TierBreak ==
    /\ IncBreaks(inc)
    /\ inc' = IncStep(inc)
    /\ UNCHANGED <<now, flt, call, dist, cur, twalk, tin, ses>>

TierRaise ==
    /\ IncRaises(inc)
    /\ inc' = IncStep(inc)
    /\ UNCHANGED <<now, flt, call, dist, cur, twalk, tin, ses>>

TierReturn ==
    /\ IncExhausted(inc)
    /\ inc' = IncStep(inc)
    /\ UNCHANGED <<now, flt, call, dist, cur, twalk, tin, ses>>

TierNext == TierCharge \/ TierBreak \/ TierRaise \/ TierReturn

SpecTier == TierInit /\ [][TierNext]_vars

(***************************************************************************)
(* Claims about the tier walk.                                             *)
(***************************************************************************)
\* tiers that tile the usage axis: the first starts at 0, each starts where
\* the previous one ends, the last is open-ended; every tier has a rate
Contiguous(ts) ==
    /\ Len(ts) >= 1
    /\ ts[1].start = 0
    /\ IsNone(ts[Len(ts)].end)
    /\ \A k \in 1..(Len(ts) - 1) :
           ~IsNone(ts[k].end) /\ ts[k + 1].start = Val(ts[k].end)
    /\ \A k \in 1..Len(ts) : ~IsNone(ts[k].Rate)

PositiveWidths(ts) ==
    \A k \in 1..Len(ts) : IsNone(ts[k].end) \/ Val(ts[k].end) > ts[k].start

\* sum over tiers of rate * min(max(U - start, 0), end - start)
RECURSIVE MarginalCharge(_, _)
MarginalCharge(U, ts) ==
    IF ts = <<>> THEN 0
    ELSE LET t == Head(ts)
             above == Max(U - t.start, 0)
             width == IF IsNone(t.end) THEN above
                      ELSE Min(above, Val(t.end) - t.start)
         IN Val(t.Rate) * width + MarginalCharge(U, Tail(ts))

ScenarioBTiers ==
    << [start |-> 0, end |-> Some(500), Rate |-> Some(1000)],
       [start |-> 500, end |-> None, Rate |-> Some(1500)] >>

\* C1: for every usage U >= 0 and every list of contiguous tiers, the charge
\* calculate_incremental_charges returns equals the sum over tiers of
\* rate * min(max(U - start, 0), end - start); tiers [0-500 @0.10,
\* 500-inf @0.15] with U = 800 give 95.
C1_ProgressiveBilling ==
    (inc.pc = "done" /\ Contiguous(inc.incremental_entries))
        => /\ inc.total_charge = MarginalCharge(inc.usage, inc.incremental_entries)
           /\ (inc.usage = 800 /\ inc.incremental_entries = ScenarioBTiers)
                  => inc.total_charge = 950000

\* The same statement for contiguous tiers that all have end > start: this
\* part of C1 holds of the code.
ProgressiveBillingPositiveWidths ==
    (/\ inc.pc = "done"
     /\ Contiguous(inc.incremental_entries)
     /\ PositiveWidths(inc.incremental_entries))
        => /\ inc.total_charge = MarginalCharge(inc.usage, inc.incremental_entries)
           /\ (inc.usage = 800 /\ inc.incremental_entries = ScenarioBTiers)
                  => inc.total_charge = 950000

ScenarioBReached ==
    /\ inc.pc = "done" /\ inc.usage = 800
    /\ inc.incremental_entries = ScenarioBTiers
    /\ inc.total_charge = 950000

\* the usage the walk has charged for: what left remaining_usage
ChargedWidth == inc.usage - inc.remaining_usage

\* min(U, sum over tiers of (end - start)), an open-ended tier counting as
\* unbounded width
RECURSIVE SumWidths(_)
SumWidths(ts) ==
    IF ts = <<>> THEN 0
    ELSE (Val(Head(ts).end) - Head(ts).start) + SumWidths(Tail(ts))

CappedWidth(U, ts) ==
    IF \E k \in 1..Len(ts) : IsNone(ts[k].end) THEN U
    ELSE Min(U, SumWidths(ts))

\* C11: for every usage U >= 0 and every tier list, the tier widths that
\* calculate_incremental_charges charges for sum to min(U, sum over tiers of
\* (end - start)), an open-ended tier counting as unbounded width.
C11_WidthConservation ==
    inc.pc = "done"
        => ChargedWidth = CappedWidth(inc.usage, inc.incremental_entries)

\* What does hold: the widths are conserved when every tier has end > start.
WidthConservationPositiveWidths ==
    (inc.pc = "done" /\ PositiveWidths(inc.incremental_entries))
        => ChargedWidth = CappedWidth(inc.usage, inc.incremental_entries)

\* C23: a tier whose computed width is <= 0 while usage remains is skipped,
\* not terminal: the walk of calculate_incremental_charges goes on, so it
\* ends with usage remaining only when the last tier has been offered it.
C23_ZeroWidthSkipped ==
    (inc.pc = "done" /\ inc.remaining_usage > 0)
        => inc.i >= Len(inc.sorted_entries)

\* What does hold: the walk ends before the last tier with usage remaining
\* only at a tier of width <= 0.
EndsEarlyOnlyAtEmptyTier ==
    (inc.pc = "done" /\ inc.remaining_usage > 0 /\ inc.i < Len(inc.sorted_entries))
        => LET entry == inc.sorted_entries[inc.i]
           IN ~IsNone(entry.end) /\ Val(entry.end) - entry.start <= 0

\* the rates of a tier list are all present and non-negative
NonNegativeRates(ts) ==
    \A k \in 1..Len(ts) : ~IsNone(ts[k].Rate) /\ Val(ts[k].Rate) >= 0

\* C12: for a fixed tier list with non-negative rates and any usages
\* 0 <= U1 <= U2, calculate_incremental_charges(U1) <=
\* calculate_incremental_charges(U2).
C12_MonotoneInUsage ==
    (inc.pc = "done" /\ NonNegativeRates(inc.incremental_entries))
        => \A U1 \in TierUsages :
               U1 <= inc.usage =>
                   calculate_incremental_charges(U1, inc.incremental_entries).total_charge
                       <= inc.total_charge

\* a walk over two tiers that charges more than a smaller usage is charged
C12_Witness ==
    /\ inc.pc = "done"
    /\ NonNegativeRates(inc.incremental_entries)
    /\ inc.usage = 800
    /\ inc.i > 2
    /\ inc.total_charge >
           calculate_incremental_charges(300, inc.incremental_entries).total_charge
    /\ calculate_incremental_charges(300, inc.incremental_entries).total_charge > 0

(***************************************************************************)
(* Specification of the applicability helpers: each is applied to inputs  *)
(* drawn from small sets, at every instant of a clock that only advances.  *)
(***************************************************************************)
Voltages == {None, Some(0), Some(25), Some(50), Some(69)}
SeasonValues ==
    {"", "Summer", "summer", "SUMMER", "Winter", "WINTER", "Spring", "Fall"}
MonthNames ==
    {"January", "February", "March", "April", "May", "June", "July",
     "August", "September", "October", "November", "December"}
FilterDates == {115, 215, 315, 415, 515, 531, 601, 715, 831, 901, 1015, 1115, 1215}
Midnight == 0 * 3600
Noon == 12 * 3600
FilterInstants == [date : FilterDates, tod : {Midnight, Noon}]

VoltageRecords ==
    {[BlankRow("Demand_Table") EXCEPT !.MinKV = lo, !.MaxKV = hi, !.Pending = p] :
        lo \in {None, Some(0)}, hi \in {None, Some(50)}, p \in BOOLEAN}
SeasonRecords ==
    {[BlankRow("Energy_Table") EXCEPT !.Season = s] : s \in SeasonValues}
DateRecords ==
    {[BlankRow("Energy_Table") EXCEPT !.StartDate = a, !.EndDate = b] :
        a \in {"", "2025-06-01"}, b \in {"", "2025-08-31"}}

FltDone(fn, record, voltage, billing_month, result) ==
    [pc |-> "done", fn |-> fn, record |-> record, voltage |-> voltage,
     billing_month |-> billing_month, clock |-> now, result |-> result]

FilterInit ==
    /\ now = Epoch
    /\ inc = IncIdle
    /\ flt = FltIdle
    /\ call = CallIdle
    /\ dist = DistIdle
    /\ cur = CurIdle
    /\ twalk = WalkIdle
    /\ tin = TinIdle
    /\ ses = NoSession

\* time passes between two evaluations
FilterTick ==
    /\ flt.pc = "idle"
    /\ \E t \in FilterInstants : DtLess(now, t) /\ now' = t
    /\ UNCHANGED <<inc, flt, call, dist, cur, twalk, tin, ses>>

EvalApplicable ==
    /\ flt.pc = "idle"
    /\ \E record \in VoltageRecords, voltage \in Voltages :
           flt' = FltDone("is_applicable", record, voltage, "",
                          is_applicable(record, voltage))
    /\ UNCHANGED <<now, inc, call, dist, cur, twalk, tin, ses>>

EvalInSeason ==
    /\ flt.pc = "idle"
    /\ \E record \in SeasonRecords :
           flt' = FltDone("is_in_season", record, None, "",
                          is_in_season(record, now))
    /\ UNCHANGED <<now, inc, call, dist, cur, twalk, tin, ses>>

EvalInDateRange ==
    /\ flt.pc = "idle"
    /\ \E record \in DateRecords :
           flt' = FltDone("is_in_date_range", record, None, "",
                          is_in_date_range(record, now))
    /\ UNCHANGED <<now, inc, call, dist, cur, twalk, tin, ses>>

\* the season check calculate_energy_charges makes on a tier
EvalSeasonApplies ==
    /\ flt.pc = "idle"
    /\ \E record \in SeasonRecords, billing_month \in MonthNames \cup {""} :
           flt' = FltDone("season_applies", record, None, billing_month,
                          season_applies(record.Season, billing_month))
    /\ UNCHANGED <<now, inc, call, dist, cur, twalk, tin, ses>>

FilterReturn ==
    /\ flt.pc = "done"
    /\ flt' = FltIdle
    /\ UNCHANGED <<now, inc, call, dist, cur, twalk, tin, ses>>

FilterNext ==
    \/ FilterTick \/ EvalApplicable \/ EvalInSeason \/ EvalInDateRange
    \/ EvalSeasonApplies \/ FilterReturn

SpecFilter == FilterInit /\ [][FilterNext]_vars

(***************************************************************************)
(* Claims about the applicability helpers.                                 *)
(***************************************************************************)
\* Mar-May Spring, Jun-Aug Summer, Sep-Nov Fall, Dec-Feb Winter
SeasonOfMonth(month) ==
    CASE month \in {"March", "April", "May"} -> "Spring"
      [] month \in {"June", "July", "August"} -> "Summer"
      [] month \in {"September", "October", "November"} -> "Fall"
      [] month \in {"December", "January", "February"} -> "Winter"

\* C9: the season a component is matched against is derived from the billing
\* month of the usage context (Mar-May Spring, Jun-Aug Summer, Sep-Nov Fall,
\* Dec-Feb Winter); a component that names a season is applied iff its season
\* equals that season ignoring case, and one without a season always is.
C9_SeasonFromBillingMonth ==
    (flt.pc = "done" /\ flt.fn = "season_applies" /\ flt.billing_month # "")
        => flt.result =
               IF flt.record.Season = "" THEN TRUE
               ELSE lower(flt.record.Season)
                        = lower(SeasonOfMonth(flt.billing_month))

\* What does hold of is_in_season in src/app.py: the season is the one of the
\* month the wall clock shows at the time of the call, matched ignoring case.
InSeasonFollowsClock ==
    (flt.pc = "done" /\ flt.fn = "is_in_season")
        => LET m == MonthOf(flt.clock)
               season == IF m \in {3, 4, 5} THEN "spring"
                         ELSE IF m \in {6, 7, 8} THEN "summer"
                         ELSE IF m \in {9, 10, 11} THEN "fall"
                         ELSE "winter"
           IN flt.result = (flt.record.Season = ""
                             \/ lower(flt.record.Season) = season)

\* C10: is_in_date_range passes a component with both StartDate and EndDate
\* iff the evaluation date lies within the range with both end days included
\* (any time on the EndDate day passes), and always passes a component that
\* has only one or neither of the two dates.
C10_DateRangeInclusive ==
    (flt.pc = "done" /\ flt.fn = "is_in_date_range")
        => flt.result =
               IF flt.record.StartDate # "" /\ flt.record.EndDate # ""
               THEN /\ strptime(flt.record.StartDate).date <= flt.clock.date
                    /\ flt.clock.date <= strptime(flt.record.EndDate).date
               ELSE TRUE

\* What does hold: the end day is included only at 00:00:00.
DateRangeEndsAtMidnight ==
    (/\ flt.pc = "done" /\ flt.fn = "is_in_date_range"
     /\ flt.record.StartDate # "" /\ flt.record.EndDate # "")
        => flt.result =
               /\ strptime(flt.record.StartDate).date <= flt.clock.date
               /\ \/ flt.clock.date < strptime(flt.record.EndDate).date
                  \/ /\ flt.clock.date = strptime(flt.record.EndDate).date
                     /\ flt.clock.tod = Midnight

(***************************************************************************)
(* Specification of calculate_bill: a call on any schedule of at most      *)
(* MaxRows rows of the catalog, for any usage context, at any instant.     *)
(***************************************************************************)
SummerRange(row) ==
    [row EXCEPT !.StartDate = "2025-06-01", !.EndDate = "2025-08-31"]

Catalog ==
    << [BlankRow("ServiceCharge_Table") EXCEPT
            !.Rate = Some(100000), !.ChargeUnit = "per_month"],
       [BlankRow("ServiceCharge_Table") EXCEPT
            !.Rate = Some(10000), !.ChargeUnit = "per_day", !.Season = "Summer"],
       SummerRange([BlankRow("ServiceCharge_Table") EXCEPT
            !.Rate = Some(50000), !.ChargeUnit = "per_bill"]),
       [BlankRow("Energy_Table") EXCEPT !.Rate = Some(1200)],
       [BlankRow("Energy_Table") EXCEPT !.Rate = Some(1000), !.Season = "WINTER"],
       [BlankRow("IncrementalEnergy_Table") EXCEPT
            !.Rate = Some(1000), !.start = 0, !.end = Some(500)],
       [BlankRow("IncrementalEnergy_Table") EXCEPT
            !.Rate = Some(1500), !.start = 500, !.end = None],
       [BlankRow("EnergyTime_Table") EXCEPT
            !.Rate = Some(2000), !.StartTime = "00:00", !.EndTime = "16:00"],
       [BlankRow("EnergyTime_Table") EXCEPT
            !.Rate = Some(1000), !.StartTime = "16:00", !.EndTime = "24:00"],
       [BlankRow("EnergyTime_Table") EXCEPT !.Rate = None],
       [BlankRow("Demand_Table") EXCEPT
            !.Rate = Some(50000), !.MinKV = Some(0), !.MaxKV = Some(50)],
       [BlankRow("Demand_Table") EXCEPT !.Rate = Some(40000), !.MinKV = Some(60)],
       [BlankRow("IncrementalDemand_Table") EXCEPT
            !.Rate = Some(60000), !.start = 0, !.end = Some(50)],
       [BlankRow("DemandTime_Table") EXCEPT !.Rate = Some(70000)],
       [BlankRow("ReactiveDemand_Table") EXCEPT !.Rate = Some(25000)],
       [BlankRow("ReactiveDemand_Table") EXCEPT
            !.Rate = Some(20000), !.Season = "Summer"],
       [BlankRow("OtherCharges_Table") EXCEPT
            !.Rate = Some(100), !.ChargeUnit = "per_kwh"],
       [BlankRow("OtherCharges_Table") EXCEPT
            !.Rate = Some(10000), !.ChargeUnit = "per_kw", !.Pending = TRUE],
       SummerRange([BlankRow("OtherCharges_Table") EXCEPT !.Rate = Some(20000)]),
       [BlankRow("Percentages_Table") EXCEPT !.Rate = Some(5), !.Basis = "energy_only"],
       [BlankRow("Percentages_Table") EXCEPT !.Rate = Some(5), !.Basis = "demand_only"],
       [BlankRow("Percentages_Table") EXCEPT !.Rate = Some(5), !.Basis = "service_only"],
       [BlankRow("Percentages_Table") EXCEPT !.Rate = Some(10), !.Basis = "subtotal"],
       [BlankRow("Percentages_Table") EXCEPT
            !.Rate = Some(10), !.Basis = "all", !.Season = "Summer"],
       [BlankRow("Percentages_Table") EXCEPT !.Rate = Some(10)],
       [BlankRow("TaxInfo_Table") EXCEPT !.Rate = Some(6), !.Basis = "energy_only"],
       [BlankRow("TaxInfo_Table") EXCEPT !.Rate = Some(6), !.Basis = "demand_only"],
       [BlankRow("TaxInfo_Table") EXCEPT !.Rate = Some(6), !.Basis = "service_only"],
       [BlankRow("TaxInfo_Table") EXCEPT !.Rate = Some(6), !.Basis = "subtotal"],
       SummerRange([BlankRow("TaxInfo_Table") EXCEPT
            !.Rate = Some(6), !.Basis = "all"]),
       [BlankRow("TaxInfo_Table") EXCEPT !.Rate = Some(6)] >>

\* increasing sequences of at most n catalog indexes, all >= lo
RECURSIVE Picks(_, _)
Picks(n, lo) ==
    IF n = 0 THEN {<<>>}
    ELSE {<<>>} \cup UNION {{<<k>> \o p : p \in Picks(n - 1, k + 1)} :
                               k \in lo..Len(Catalog)}

Schedules == {[k \in 1..Len(p) |-> Catalog[p[k]]] : p \in Picks(MaxRows, 1)}

\* usage_kwh and demand_kw of a call
UsageValues == {<<1200, 100>>, <<0, 0>>}
BillingDaysValues == {30}
VoltageValues == {None, Some(50), Some(69)}
BillInstants == {[date |-> 715, tod |-> Noon]}

BillInit ==
    /\ now = Epoch
    /\ inc = IncIdle
    /\ flt = FltIdle
    /\ call = CallIdle
    /\ dist = DistIdle
    /\ cur = CurIdle
    /\ twalk = WalkIdle
    /\ tin = TinIdle
    /\ ses = NoSession

\* time passes between two calls
BillTick ==
    /\ call.pc = "idle"
    /\ \E t \in BillInstants : DtLess(now, t) /\ now' = t
    /\ UNCHANGED <<inc, flt, call, dist, cur, twalk, tin, ses>>

CalculateBill ==
    /\ call.pc = "idle"
    /\ \E schedule \in Schedules, usage \in UsageValues,
          billing_days \in BillingDaysValues, voltage \in VoltageValues :
           call' = calculate_bill(schedule, usage[1], usage[2],
                                  billing_days, voltage, now)
    /\ UNCHANGED <<now, inc, flt, dist, cur, twalk, tin, ses>>

BillReturn ==
    /\ call.pc = "done"
    /\ call' = CallIdle
    /\ UNCHANGED <<now, inc, flt, dist, cur, twalk, tin, ses>>

BillNext == BillTick \/ CalculateBill \/ BillReturn

SpecBill == BillInit /\ [][BillNext]_vars

\* the integer arithmetic of the model is exact on the inputs above
ArithmeticExact == (call.pc = "done" /\ call.result # None) => call.exact

(***************************************************************************)
(* Claims about calculate_bill.                                            *)
(***************************************************************************)
Returned == call.pc = "done" /\ call.result # None
Breakdown == Val(call.result).breakdown

\* the schedule without its k-th row
Without(schedule, k) ==
    SubSeq(schedule, 1, k - 1) \o SubSeq(schedule, k + 1, Len(schedule))

\* what the same call returns on another schedule
ResultOn(schedule) ==
    calculate_bill(schedule, call.usage_kwh, call.demand_kw, call.billing_days,
                   call.voltage, call.clock).result

\* all checks of the applicability filter pass for the row
Applies(row) == InEffect(row, call.voltage, call.clock)

RowsIn(table) == Query(call.schedule, table)
RowsApplying(table) ==
    Filter(RowsIn(table), [r \in {call.schedule[k] : k \in 1..Len(call.schedule)}
                              |-> Applies(r)])

\* C2: whenever at least one applicable tiered energy component exists, the
\* Energy total is the tiered accumulator's result over usageKwh, whatever
\* flat or time-of-use energy components the schedule also has.
C2_TieredEnergyFirst ==
    (Returned /\ RowsApplying("IncrementalEnergy_Table") # <<>>)
        => Breakdown.Energy_Charges =
               calculate_incremental_charges(
                   call.usage_kwh, RowsApplying("IncrementalEnergy_Table")).total_charge

\* What does hold: tiers replace the flat sum, and a positive time-of-use
\* total replaces either.
TieredEnergyUnlessTimeOfUse ==
    (/\ Returned
     /\ RowsApplying("IncrementalEnergy_Table") # <<>>
     /\ \A k \in 1..Len(RowsApplying("EnergyTime_Table")) :
            RateOf(RowsApplying("EnergyTime_Table")[k]) = 0 \/ call.usage_kwh = 0)
        => Breakdown.Energy_Charges =
               calculate_incremental_charges(
                   call.usage_kwh, RowsApplying("IncrementalEnergy_Table")).total_charge

ReportedSubtotal ==
    Breakdown.Service_Charges + Breakdown.Energy_Charges
        + Breakdown.Demand_Charges + Breakdown.Other_Charges

\* the base the specification gives a tax component
SpecTaxBase(basis) ==
    CASE basis = "energy_only" -> Breakdown.Energy_Charges
      [] basis = "demand_only" -> Breakdown.Demand_Charges
      [] basis = "service_only" -> Breakdown.Service_Charges
      [] basis = "subtotal" -> ReportedSubtotal
      [] basis \in {"all", ""} ->
             ReportedSubtotal + Breakdown.Percentage_based_Charges

\* the base the specification gives a percentage component
SpecPercentageBase(basis) ==
    CASE basis = "energy_only" -> Breakdown.Energy_Charges
      [] basis = "demand_only" -> Breakdown.Demand_Charges
      [] basis = "service_only" -> Breakdown.Service_Charges
      [] basis \in {"subtotal", "all", ""} -> ReportedSubtotal

ItemAmounts(items) == [k \in 1..Len(items) |-> items[k].amount]

\* C3: every applicable tax component is charged (rate/100) * base, base being
\* the Energy, Demand or Service total for energy_only, demand_only,
\* service_only, the subtotal for 'subtotal', and subtotal + percentageTotal
\* for 'all' or an unset basis, with the final percentage total.
C3_TaxBasis ==
    Returned =>
        /\ \A k \in 1..Len(RowsApplying("TaxInfo_Table")) :
               LET tax == RowsApplying("TaxInfo_Table")[k]
               IN \E j \in 1..Len(call.tax_items) :
                      /\ call.tax_items[j].row = tax
                      /\ call.tax_items[j].amount =
                             (RateOf(tax) * SpecTaxBase(tax.Basis)) \div 100
        /\ Breakdown.Taxes = SumSeq(ItemAmounts(call.tax_items))

\* a call that taxes on the 'all' basis a bill that has a percentage charge
C3_Witness ==
    /\ Returned
    /\ Breakdown.Percentage_based_Charges > 0
    /\ \E k \in 1..Len(RowsApplying("TaxInfo_Table")) :
           /\ RowsApplying("TaxInfo_Table")[k].Basis = "all"
           /\ Breakdown.Taxes > 0

\* C4: every applicable percentage component is charged (rate/100) * base,
\* base being the Energy, Demand or Service total for energy_only,
\* demand_only, service_only and the subtotal Service+Energy+Demand+Other for
\* 'subtotal', 'all' or an unset basis: never a tax or a percentage amount.
C4_PercentageBasis ==
    Returned =>
        /\ \A k \in 1..Len(RowsApplying("Percentages_Table")) :
               LET charge == RowsApplying("Percentages_Table")[k]
               IN \E j \in 1..Len(call.percentage_items) :
                      /\ call.percentage_items[j].row = charge
                      /\ call.percentage_items[j].amount =
                             (RateOf(charge) * SpecPercentageBase(charge.Basis)) \div 100
        /\ Breakdown.Percentage_based_Charges
               = SumSeq(ItemAmounts(call.percentage_items))

\* a call that charges a percentage on the 'all' basis on a bill that has
\* taxes too
C4_Witness ==
    /\ Returned
    /\ Breakdown.Taxes > 0
    /\ \E k \in 1..Len(RowsApplying("Percentages_Table")) :
           RowsApplying("Percentages_Table")[k].Basis = "all"
    /\ Breakdown.Percentage_based_Charges > 0

\* default_tax_rate of src/evready_playbook/bill_calculator.py
DefaultTaxRate == 6

\* C5: when the schedule has no Tax components the tax amount is 6% of the
\* subtotal (and the result is flagged as using a default tax); a single flat
\* energy rate of 0.12 with nothing else gives a tax of 6% of the energy total.
C5_DefaultTax ==
    (Returned /\ RowsIn("TaxInfo_Table") = <<>>)
        => Breakdown.Taxes = (DefaultTaxRate * ReportedSubtotal) \div 100

\* C6: subtotal = Service + Energy + Demand + Other and total_cost = subtotal +
\* percentageTotal + taxTotal, each term being the value the breakdown reports
\* for that category.
C6_BillTotal ==
    Returned =>
        /\ call.subtotal = ReportedSubtotal
        /\ Val(call.result).total_cost =
               call.subtotal + Breakdown.Percentage_based_Charges + Breakdown.Taxes

\* a bill with a charge, a percentage charge and a tax
C6_Witness ==
    /\ Returned
    /\ ReportedSubtotal > 0
    /\ Breakdown.Percentage_based_Charges > 0
    /\ Breakdown.Taxes > 0
    /\ Val(call.result).total_cost > ReportedSubtotal + Breakdown.Taxes

OutOfSeasonOrRange(row) ==
    ~is_in_season(row, call.clock) \/ ~is_in_date_range(row, call.clock)

\* C7: a Service, Other, Percentage, Tax or Reactive component whose season
\* does not match the current season, or whose date range excludes the
\* evaluation date, contributes nothing to the bill, exactly as for Energy
\* and Demand components.
C7_EveryCategoryFiltered ==
    Returned =>
        \A k \in 1..Len(call.schedule) :
            (/\ call.schedule[k].table \in
                    {"ServiceCharge_Table", "OtherCharges_Table",
                     "Percentages_Table", "TaxInfo_Table", "ReactiveDemand_Table"}
             /\ OutOfSeasonOrRange(call.schedule[k]))
                => ResultOn(Without(call.schedule, k)) = call.result

\* What does hold: the energy and demand tables are filtered by season and
\* date range.
EnergyAndDemandFiltered ==
    Returned =>
        \A k \in 1..Len(call.schedule) :
            (/\ call.schedule[k].table \in
                    {"Energy_Table", "IncrementalEnergy_Table", "EnergyTime_Table",
                     "Demand_Table", "IncrementalDemand_Table", "DemandTime_Table"}
             /\ OutOfSeasonOrRange(call.schedule[k]))
                => ResultOn(Without(call.schedule, k)) = call.result

VoltageOutside(row, voltage) ==
    /\ ~IsNone(row.MinKV) /\ ~IsNone(row.MaxKV) /\ ~IsNone(voltage)
    /\ (Val(voltage) < Val(row.MinKV) \/ Val(voltage) > Val(row.MaxKV))

\* C8: is_applicable rejects a non-pending component exactly when it has both
\* MinKV and MaxKV, a voltage is supplied and the voltage lies outside
\* [MinKV, MaxKV]; a rejected component adds nothing to the bill: a demand
\* component with bounds 0..50 adds nothing to the demand total at voltage 69.
C8_VoltageFilter ==
    call.pc = "done" =>
        \A k \in 1..Len(call.schedule) :
            LET row == call.schedule[k]
            IN /\ ~row.Pending =>
                      (is_applicable(row, call.voltage)
                           <=> ~VoltageOutside(row, call.voltage))
               /\ VoltageOutside(row, call.voltage) =>
                      ResultOn(Without(call.schedule, k)) = call.result

\* Scenario C: a demand component with bounds 0..50 in a call at voltage 69
\* with a positive demand
C8_Witness ==
    /\ Returned
    /\ call.voltage = Some(69)
    /\ call.demand_kw > 0
    /\ \E k \in 1..Len(call.schedule) :
           /\ call.schedule[k].table = "Demand_Table"
           /\ call.schedule[k].MinKV = Some(0)
           /\ call.schedule[k].MaxKV = Some(50)
           /\ RateOf(call.schedule[k]) > 0
    /\ Breakdown.Demand_Charges > 0

\* the rows of the schedule that are not in the table
RECURSIVE WithoutTable(_, _)
WithoutTable(schedule, table) ==
    IF schedule = <<>> THEN <<>>
    ELSE IF Head(schedule).table = table THEN WithoutTable(Tail(schedule), table)
         ELSE <<Head(schedule)>> \o WithoutTable(Tail(schedule), table)

\* the flat, tiered or time-of-use demand result: the Demand total of the
\* same call on the schedule without its reactive rows
BaseDemand ==
    Val(ResultOn(WithoutTable(call.schedule, "ReactiveDemand_Table")))
        .breakdown.Demand_Charges

ReactiveSum(rows) ==
    SumSeq([k \in 1..Len(rows) |-> ReactiveAmount(rows[k], call.demand_kw)])

\* C15: whenever reactive components exist and demandKw > 0, the Demand total
\* is the flat/tiered/time-of-use demand result plus the sum of rate * kvar
\* over the applicable reactive components (power factor 0.9); the reactive
\* charge is never dropped or replaced by a tiered or time-of-use override,
\* and is zero when demandKw = 0.
C15_ReactiveAdditive ==
    (Returned /\ RowsIn("ReactiveDemand_Table") # <<>>)
        => Breakdown.Demand_Charges =
               BaseDemand
               + (IF call.demand_kw > 0
                  THEN ReactiveSum(RowsApplying("ReactiveDemand_Table"))
                  ELSE 0)

\* What does hold: the reactive charge is added for every reactive row that
\* passes is_applicable, in or out of season.
ReactiveAddedWhenApplicable ==
    (Returned /\ RowsIn("ReactiveDemand_Table") # <<>>)
        => Breakdown.Demand_Charges =
               BaseDemand
               + (IF call.demand_kw > 0
                  THEN ReactiveSum(
                           Filter(RowsIn("ReactiveDemand_Table"),
                                  [r \in {call.schedule[k] : k \in 1..Len(call.schedule)}
                                      |-> is_applicable(r, call.voltage)]))
                  ELSE 0)

\* a reactive charge added on top of a time-of-use demand total
ReactiveOnTopOfOverride ==
    /\ Returned
    /\ call.demand_kw > 0
    /\ RowsApplying("DemandTime_Table") # <<>>
    /\ RowsApplying("ReactiveDemand_Table") # <<>>
    /\ Breakdown.Demand_Charges > BaseDemand
    /\ BaseDemand > 0

\* what the same call on the same schedule returns at another time
ResultAt(clock) ==
    calculate_bill(call.schedule, call.usage_kwh, call.demand_kw,
                   call.billing_days, call.voltage, clock).result

\* C18: two calls of calculate_bill with the same rule set and the same inputs
\* return identical breakdowns and totals; the result does not depend on when
\* the call is made.
C18_Deterministic ==
    call.pc = "done" =>
        \A t \in BillInstants \cup {Epoch} : ResultAt(t) = call.result

\* What does hold: the time of the call matters only through rows that name
\* a season or a date range.
DeterministicWithoutSeasonsAndDates ==
    (/\ call.pc = "done"
     /\ \A k \in 1..Len(call.schedule) :
            /\ call.schedule[k].Season = ""
            /\ call.schedule[k].StartDate = "" \/ call.schedule[k].EndDate = "")
        => \A t \in BillInstants \cup {Epoch} : ResultAt(t) = call.result

(***************************************************************************)
(* Specification of estimate_time_distribution: a call on any list of at   *)
(* most MaxPeriods periods and any total usage.                            *)
(***************************************************************************)
MaxPeriods == 2

\* times of day as "HH:MM"; a period starts before 24:00 and may end at it
TouStartTimes == {"", "00:00", "08:00", "16:00", "22:00"}
TouEndTimes == TouStartTimes \cup {"24:00"}
TouUsages == {0, 900, 1200}
TouEntries ==
    {[BlankRow("EnergyTime_Table") EXCEPT !.StartTime = a, !.EndTime = b] :
        a \in TouStartTimes, b \in TouEndTimes}
TouLists == SeqsUpTo(TouEntries, MaxPeriods)

TouInit ==
    /\ now = Epoch
    /\ inc = IncIdle
    /\ flt = FltIdle
    /\ call = CallIdle
    /\ dist = DistIdle
    /\ cur = CurIdle
    /\ twalk = WalkIdle
    /\ tin = TinIdle
    /\ ses = NoSession

\* the call as a whole; rest lists what each period's division leaves over
Distribute ==
    /\ dist.pc = "idle"
    /\ \E total_usage \in TouUsages, time_entries \in TouLists :
           dist' = [pc |-> "done",
                    total_usage |-> total_usage,
                    time_entries |-> time_entries,
                    total_hours |-> TotalHours(time_entries),
                    result |-> estimate_time_distribution(total_usage, time_entries),
                    rest |-> [k \in 1..Len(time_entries) |->
                                 PeriodUsageRest(total_usage,
                                                 HoursShared(time_entries[k]),
                                                 TotalHours(time_entries))]]
    /\ UNCHANGED <<now, inc, flt, call, cur, twalk, tin, ses>>

DistReturn ==
    /\ dist.pc = "done"
    /\ dist' = DistIdle
    /\ UNCHANGED <<now, inc, flt, call, cur, twalk, tin, ses>>

TouNext == Distribute \/ DistReturn

SpecTou == TouInit /\ [][TouNext]_vars

(***************************************************************************)
(* Claims about estimate_time_distribution.  A period's usage is the       *)
(* quotient usage of an exact division whose remainder is rest, so         *)
(* usage * total_hours + rest is total_usage * hours exactly.              *)
(***************************************************************************)
PeriodUsages == [k \in 1..Len(dist.result) |-> dist.result[k].usage]

AllocationHours(entry) ==
    IF entry.StartTime = "" /\ entry.EndTime = "" THEN 24
    ELSE LET d == HourOf(entry.EndTime) - HourOf(entry.StartTime)
         IN IF d <= 0 THEN d + 24 ELSE d

BothTimesOrNone(entry) == (entry.StartTime = "") <=> (entry.EndTime = "")

ScenarioEPeriods ==
    << [BlankRow("EnergyTime_Table") EXCEPT
            !.StartTime = "00:00", !.EndTime = "16:00"],
       [BlankRow("EnergyTime_Table") EXCEPT
            !.StartTime = "16:00", !.EndTime = "24:00"] >>

\* C14: period i receives U * hours[i] / totalHours, where hours[i] =
\* endHour - startHour, plus 24 when that difference is <= 0, and 24 when the
\* period has no times; two periods of 16 and 8 hours with U = 900 receive
\* 600 and 300.
C14_AllocationFormula ==
    (/\ dist.pc = "done" /\ dist.time_entries # <<>>
     /\ \A k \in 1..Len(dist.time_entries) : BothTimesOrNone(dist.time_entries[k]))
        => LET n == Len(dist.time_entries)
               totalHours == SumSeq([k \in 1..n |->
                                        AllocationHours(dist.time_entries[k])])
           IN /\ \A k \in 1..n :
                     /\ dist.result[k].usage * totalHours + dist.rest[k]
                            = dist.total_usage * AllocationHours(dist.time_entries[k])
                     /\ 0 <= dist.rest[k] /\ dist.rest[k] < totalHours
              /\ (dist.total_usage = 900 /\ dist.time_entries = ScenarioEPeriods)
                     => /\ dist.result[1].usage = 600 /\ dist.result[2].usage = 300
                        /\ dist.rest = <<0, 0>>

\* Scenario E
C14_Witness ==
    /\ dist.pc = "done"
    /\ dist.total_usage = 900
    /\ dist.time_entries = ScenarioEPeriods
    /\ PeriodUsages = <<600, 300>>

(***************************************************************************)
(* src/evready_playbook/bill_calculator.py: calculate_current_bill and the *)
(* functions it calls.  A column may hold text that float() rejects        *)
(* (Unparsable): float() then raises ValueError.  failing is the set of    *)
(* tables whose query raises.  A line item is [kind, Description, Amount]; *)
(* kind records the list the item was appended to.  The Description of a   *)
(* time-of-use energy line is the period's TimeOfDay, the part of the text *)
(* that tells the periods apart; other lines read "charge".                *)
(***************************************************************************)
Unparsable == <<0, 0>>
IsBad(x) == Len(x) = 2

\* float(x.get(col, 0)) if x.get(col) is not None else default
FloatOf(x, default) == IF IsNone(x) THEN default ELSE Val(x)

Item(kind, description, amount) ==
    [kind |-> kind, Description |-> description, Amount |-> amount]

Amounts(items) == SumSeq([k \in 1..Len(items) |-> items[k].Amount])

\* the rows a loop handles before a row raises inside a try that encloses the
\* whole loop
RECURSIVE UpToBad(_, _)
UpToBad(rows, bad) ==
    IF rows = <<>> THEN <<>>
    ELSE IF bad[Head(rows)] THEN <<>>
         ELSE <<Head(rows)>> \o UpToBad(Tail(rows), bad)

RowSet(schedule) == {schedule[k] : k \in 1..Len(schedule)}

\* calculate_service_charges (lines 304-325)
calculate_service_charges(schedule, failing) ==
    IF "ServiceCharge_Table" \in failing
    THEN [charge |-> 0, breakdown |-> <<>>, warned |-> TRUE]
    ELSE LET data == Query(schedule, "ServiceCharge_Table")
             done == UpToBad(data, [r \in RowSet(schedule) |-> IsBad(r.Rate)])
             breakdown == [k \in 1..Len(done) |->
                              Item("service", "charge", FloatOf(done[k].Rate, 0))]
         IN [charge |-> Amounts(breakdown), breakdown |-> breakdown,
             warned |-> Len(done) < Len(data)]

\* lines 336-353: the flat energy rates; each row has its own try
EnergyFlatBad(rate) == IsBad(rate.Rate) \/ IsBad(rate.MinKV) \/ IsBad(rate.MaxKV)
InRange(lo, x, hi) ==
    FloatOf(lo, 0) <= x /\ (IsNone(hi) \/ x <= Val(hi))
EnergyFlatItems(schedule, usage_kwh) ==
    LET data == Query(schedule, "Energy_Table")
        kept == Filter(data, [r \in RowSet(schedule) |->
                                 /\ ~EnergyFlatBad(r)
                                 /\ InRange(r.MinKV, usage_kwh, r.MaxKV)])
    IN [k \in 1..Len(kept) |->
           Item("energy", "charge", FloatOf(kept[k].Rate, 0) * usage_kwh)]

\* A variant of the tier usage that gives a closed tier its whole width; the
\* sign of the remaining usage is checked to tell it from the code's.
BcTierUsageWholeWidth(remaining, tier) ==
    IF IsNone(tier.end) THEN Max(0, remaining - tier.start)
    ELSE Val(tier.end) - tier.start

\* lines 383 and 552: min(max(0, remaining - start), end - start)
BcTierUsage(remaining, tier) ==
    LET above == Max(0, remaining - tier.start)
    IN IF IsNone(tier.end) THEN above
       ELSE Min(above, Val(tier.end) - tier.start)

\* lines 364-395 (and 544-564, where seasonal is FALSE): the loop over the
\* sorted tiers.  acc is [items, remaining, steps, raised]: steps lists the
\* remaining usage after each tier handled, raised tells that a float() of
\* the tier's columns raised, which ends the loop.
RECURSIVE BcTierWalk(_, _, _, _, _)
BcTierWalk(tiers, kind, billing_month, seasonal, acc) ==
    IF tiers = <<>> THEN acc
    ELSE LET tier == Head(tiers)
             tier_usage == BcTierUsage(acc.remaining, tier)
             left == acc.remaining - tier_usage
         IN IF IsBad(tier.Rate) \/ IsBad(tier.end)
            THEN [acc EXCEPT !.raised = TRUE]
            ELSE IF seasonal /\ ~season_applies(tier.Season, billing_month)
            THEN BcTierWalk(Tail(tiers), kind, billing_month, seasonal, acc)
            ELSE IF tier_usage > 0
            THEN LET next == [acc EXCEPT
                                 !.items = Append(@, Item(kind, "charge",
                                              tier_usage * FloatOf(tier.Rate, 0))),
                                 !.remaining = left,
                                 !.steps = Append(@, left)]
                 IN IF left <= 0 THEN next
                    ELSE BcTierWalk(Tail(tiers), kind, billing_month, seasonal, next)
            ELSE BcTierWalk(Tail(tiers), kind, billing_month, seasonal,
                            [acc EXCEPT !.steps = Append(@, acc.remaining)])

BcTiers(data, kind, usage, billing_month, seasonal) ==
    BcTierWalk(SortByStart(data), kind, billing_month, seasonal,
               [items |-> <<>>, remaining |-> usage, steps |-> <<>>,
                raised |-> FALSE])

\* lines 436-462: no usage-by-period map, the usage is split evenly over all
\* the periods fetched; a period out of season is skipped
RECURSIVE TouEvenItems(_, _, _, _)
TouEvenItems(periods, usage_kwh, num_periods, billing_month) ==
    IF periods = <<>> THEN <<>>
    ELSE LET period == Head(periods)
         IN IF IsBad(period.Rate) THEN <<>>
            ELSE IF ~season_applies(period.Season, billing_month)
            THEN TouEvenItems(Tail(periods), usage_kwh, num_periods, billing_month)
            ELSE <<Item("energy", period.TimeOfDay,
                        (FloatOf(period.Rate, 0) * usage_kwh) \div num_periods)>>
                 \o TouEvenItems(Tail(periods), usage_kwh, num_periods, billing_month)

\* lines 405-434: the usage-by-period map is used as given
UsageOfPeriod(usage_by_tou, period) ==
    IF period.TimeOfDay \in DOMAIN usage_by_tou
    THEN usage_by_tou[period.TimeOfDay] ELSE 0

RECURSIVE TouMapItems(_, _, _)
TouMapItems(periods, usage_by_tou, billing_month) ==
    IF periods = <<>> THEN <<>>
    ELSE LET period == Head(periods)
             period_usage == UsageOfPeriod(usage_by_tou, period)
         IN IF IsBad(period.Rate) THEN <<>>
            ELSE IF ~season_applies(period.Season, billing_month)
                    \/ period_usage <= 0
            THEN TouMapItems(Tail(periods), usage_by_tou, billing_month)
            ELSE <<Item("energy", period.TimeOfDay,
                        FloatOf(period.Rate, 0) * period_usage)>>
                 \o TouMapItems(Tail(periods), usage_by_tou, billing_month)

\* what the even split's divisions leave over
TouEvenRest(periods, usage_kwh) ==
    SumSeq([k \in 1..Len(periods) |->
               IF IsBad(periods[k].Rate) THEN 0
               ELSE (FloatOf(periods[k].Rate, 0) * usage_kwh) % Len(periods)])

\* calculate_energy_charges (lines 327-469).  A query that raises ends the
\* function in the outer except clause with what was charged before it.
calculate_energy_charges(schedule, usage_kwh, usage_by_tou, billing_month, failing) ==
    LET flat == EnergyFlatItems(schedule, usage_kwh)
        tier_data == Query(schedule, "IncrementalEnergy_Table")
        walk == BcTiers(tier_data, "energy", usage_kwh, billing_month, TRUE)
        periods == Query(schedule, "EnergyTime_Table")
        tou == IF DOMAIN usage_by_tou # {}
               THEN TouMapItems(periods, usage_by_tou, billing_month)
               ELSE TouEvenItems(periods, usage_kwh, Len(periods), billing_month)
        breakdown ==
            IF "Energy_Table" \in failing THEN <<>>
            ELSE IF "IncrementalEnergy_Table" \in failing THEN flat
            ELSE IF "EnergyTime_Table" \in failing THEN flat \o walk.items
            ELSE flat \o walk.items \o tou
    IN [charge |-> Amounts(breakdown), breakdown |-> breakdown,
        steps |-> walk.steps,
        exact |-> DOMAIN usage_by_tou # {} \/ TouEvenRest(periods, usage_kwh) = 0,
        warned |-> \/ failing \cap {"Energy_Table", "IncrementalEnergy_Table",
                                    "EnergyTime_Table"} # {}
                   \/ walk.raised
                   \/ \E k \in 1..Len(periods) : IsBad(periods[k].Rate)
                   \/ \E k \in 1..Len(schedule) :
                          /\ schedule[k].table = "Energy_Table"
                          /\ EnergyFlatBad(schedule[k])]

\* lines 480-497: the flat demand rates; each row has its own try
DemandFlatItems(schedule, demand_kw) ==
    LET data == Query(schedule, "Demand_Table")
        kept == Filter(data, [r \in RowSet(schedule) |->
                                 /\ ~EnergyFlatBad(r)
                                 /\ InRange(r.MinKV, demand_kw, r.MaxKV)])
    IN [k \in 1..Len(kept) |->
           Item("demand", "charge", FloatOf(kept[k].Rate, 0) * demand_kw)]

\* lines 512-514: rates_kw.index(max(rates_kw)), the first row with the
\* highest rate
HighestRate(data) ==
    LET rates_kw == [k \in 1..Len(data) |-> FloatOf(data[k].Rate, 0)]
        index == CHOOSE k \in 1..Len(data) :
                    /\ \A j \in 1..Len(data) : rates_kw[j] <= rates_kw[k]
                    /\ \A j \in 1..(k - 1) : rates_kw[j] < rates_kw[k]
    IN data[index]

\* lines 522-524
DemandSeasonApplies(season, billing_month) ==
    \/ season = ""
    \/ billing_month = ""
    \/ (lower(season) = "summer" /\ billing_month \in summer_months)
    \/ (lower(season) = "winter" /\ billing_month \in winter_months)

\* lines 502-533: only the highest time-of-use demand rate is charged
DemandTouItems(schedule, demand_kw, billing_month) ==
    LET data == Query(schedule, "DemandTime_Table")
    IN IF data = <<>> \/ \E k \in 1..Len(data) : IsBad(data[k].Rate) THEN <<>>
       ELSE LET highest_rate == HighestRate(data)
            IN IF DemandSeasonApplies(highest_rate.Season, billing_month)
               THEN <<Item("demand", "charge",
                           FloatOf(highest_rate.Rate, 0) * demand_kw)>>
               ELSE <<>>

\* line 576: tan(acos(power_factor)) in thousandths, power_factor in hundredths
TanAcos(power_factor) ==
    CASE power_factor = 90 -> TanAcosMilli
      [] power_factor = 100 -> 0

ReactiveBad(rate) == IsBad(rate.Rate) \/ IsBad(rate.Min) \/ IsBad(rate.Max)

\* lines 578-591: the loop over the reactive rates inside one try
ReactiveItems(schedule, demand_kw, power_factor) ==
    LET data == Query(schedule, "ReactiveDemand_Table")
        reactive_kvar == demand_kw * TanAcos(power_factor)
        done == UpToBad(data, [r \in RowSet(schedule) |-> ReactiveBad(r)])
        kept == Filter(done, [r \in RowSet(schedule) |->
                                 /\ FloatOf(r.Min, 0) * 1000 <= reactive_kvar
                                 /\ IsNone(r.Max) \/ reactive_kvar <= Val(r.Max) * 1000])
    IN [k \in 1..Len(kept) |->
           Item("demand", "charge",
                (FloatOf(kept[k].Rate, 0) * reactive_kvar) \div 1000)]

ReactiveItemsRest(schedule, demand_kw, power_factor) ==
    LET data == Query(schedule, "ReactiveDemand_Table")
    IN SumSeq([k \in 1..Len(data) |->
                  IF ReactiveBad(data[k]) THEN 0
                  ELSE (FloatOf(data[k].Rate, 0) * demand_kw
                           * TanAcos(power_factor)) % 1000])

\* calculate_demand_charges (lines 471-598)
calculate_demand_charges(schedule, demand_kw, power_factor, billing_month, has_reactive_demand, failing) ==
    LET flat == DemandFlatItems(schedule, demand_kw)
        tou == DemandTouItems(schedule, demand_kw, billing_month)
        tier_data == Query(schedule, "IncrementalDemand_Table")
        walk == BcTiers(tier_data, "demand", demand_kw, billing_month, FALSE)
        asked == has_reactive_demand /\ demand_kw > 0
        reactive == IF asked
                    THEN ReactiveItems(schedule, demand_kw, power_factor)
                    ELSE <<>>
        breakdown ==
            IF "Demand_Table" \in failing THEN <<>>
            ELSE IF "DemandTime_Table" \in failing THEN flat
            ELSE IF "IncrementalDemand_Table" \in failing THEN flat \o tou
            ELSE IF asked /\ "ReactiveDemand_Table" \in failing
                 THEN flat \o tou \o walk.items
            ELSE flat \o tou \o walk.items \o reactive
    IN [charge |-> Amounts(breakdown), breakdown |-> breakdown,
        steps |-> walk.steps,
        exact |-> ~asked \/ ReactiveItemsRest(schedule, demand_kw, power_factor) = 0,
        warned |-> \/ failing \cap {"Demand_Table", "DemandTime_Table",
                                    "IncrementalDemand_Table"} # {}
                   \/ (asked /\ "ReactiveDemand_Table" \in failing)
                   \/ walk.raised
                   \/ \E k \in 1..Len(schedule) :
                          \/ /\ schedule[k].table = "Demand_Table"
                             /\ EnergyFlatBad(schedule[k])
                          \/ /\ schedule[k].table = "DemandTime_Table"
                             /\ IsBad(schedule[k].Rate)
                   \/ (asked /\ \E k \in 1..Len(schedule) :
                          /\ schedule[k].table = "ReactiveDemand_Table"
                          /\ ReactiveBad(schedule[k]))]

\* A variant of the other charges that adds each charge to the total without
\* listing it; the sums of the bill table are checked to tell it from the
\* code's.
calculate_other_charges_unlisted(schedule, failing) ==
    LET data == Query(schedule, "OtherCharges_Table")
        kept == Filter(data, [r \in RowSet(schedule) |-> ~IsBad(r.ChargeType)])
    IN [charge |-> SumSeq([k \in 1..Len(kept) |-> FloatOf(kept[k].ChargeType, 0)]),
        breakdown |-> <<>>,
        warned |-> Len(kept) < Len(data)]

\* calculate_other_charges (lines 600-624): each row has its own try
calculate_other_charges(schedule, failing) ==
    IF "OtherCharges_Table" \in failing
    THEN [charge |-> 0, breakdown |-> <<>>, warned |-> TRUE]
    ELSE LET data == Query(schedule, "OtherCharges_Table")
             kept == Filter(data, [r \in RowSet(schedule) |-> ~IsBad(r.ChargeType)])
             breakdown == [k \in 1..Len(kept) |->
                              Item("other", "charge", FloatOf(kept[k].ChargeType, 0))]
         IN [charge |-> Amounts(breakdown), breakdown |-> breakdown,
             warned |-> Len(kept) < Len(data)]

\* lines 660-667 and 672-679
DefaultTax(subtotal, warned) ==
    [amount |-> PercentOf(DefaultTaxRate, subtotal),
     breakdown |-> <<Item("tax", "Default Tax Rate",
                          PercentOf(DefaultTaxRate, subtotal))>>,
     using_default_tax |-> TRUE,
     exact |-> PercentRest(DefaultTaxRate, subtotal) = 0,
     warned |-> warned]

\* calculate_taxes (lines 626-681): Per_cent is the rate column of a tax row
calculate_taxes(schedule, subtotal, failing) ==
    LET data == Query(schedule, "TaxInfo_Table")
        kept == Filter(data, [r \in RowSet(schedule) |-> ~IsBad(r.Rate)])
        breakdown == [k \in 1..Len(kept) |->
                         Item("tax", "charge",
                              PercentOf(FloatOf(kept[k].Rate, 0), subtotal))]
    IN IF "TaxInfo_Table" \in failing THEN DefaultTax(subtotal, TRUE)
       ELSE IF data = <<>> THEN DefaultTax(subtotal, FALSE)
       ELSE [amount |-> Amounts(breakdown), breakdown |-> breakdown,
             using_default_tax |-> FALSE,
             exact |-> \A k \in 1..Len(kept) :
                          PercentRest(FloatOf(kept[k].Rate, 0), subtotal) = 0,
             warned |-> Len(kept) < Len(data)]

\* A variant of the bill table that lists the other charges before the
\* demand charges; the breakdown ordering is checked to tell it from the
\* code's.
create_bill_dataframe_other_first(service_charge_breakdown, energy_charges_breakdown, demand_charges_breakdown, other_charges_breakdown, subtotal, tax_breakdown, total_bill, has_energy_charges, has_demand_charges) ==
    service_charge_breakdown
    \o energy_charges_breakdown
    \o other_charges_breakdown
    \o demand_charges_breakdown
    \o <<Item("subtotal", "Subtotal", subtotal)>>
    \o tax_breakdown
    \o <<Item("total", "Total", total_bill)>>

\* create_bill_dataframe (lines 683-724): the rows of the bill table
create_bill_dataframe(service_charge_breakdown, energy_charges_breakdown, demand_charges_breakdown, other_charges_breakdown, subtotal, tax_breakdown, total_bill, has_energy_charges, has_demand_charges) ==
    service_charge_breakdown
    \o (IF has_energy_charges
        THEN IF energy_charges_breakdown # <<>> THEN energy_charges_breakdown
             ELSE <<Item("energy", "Energy Charges", 0)>>
        ELSE <<>>)
    \o (IF has_demand_charges
        THEN IF demand_charges_breakdown # <<>> THEN demand_charges_breakdown
             ELSE <<Item("demand", "Demand Charges", 0)>>
        ELSE <<>>)
    \o other_charges_breakdown
    \o <<Item("subtotal", "Subtotal", subtotal)>>
    \o tax_breakdown
    \o <<Item("total", "Total", total_bill)>>

\* check_rate_components (src/evready_playbook/main.py:260-321)
HasRows(schedule, tables) ==
    \E k \in 1..Len(schedule) : schedule[k].table \in tables
check_rate_components(schedule) ==
    [has_energy_charges |->
        HasRows(schedule, {"Energy_Table", "EnergyTime_Table",
                           "IncrementalEnergy_Table"}),
     has_demand_charges |->
        HasRows(schedule, {"Demand_Table", "DemandTime_Table",
                           "IncrementalDemand_Table"}),
     has_reactive_demand |-> HasRows(schedule, {"ReactiveDemand_Table"})]

NoCharge == [charge |-> 0, breakdown |-> <<>>, steps |-> <<>>,
             exact |-> TRUE, warned |-> FALSE]

\* calculate_current_bill (lines 5-72).  raised tells that the call ends in an
\* exception instead of a bill: the function has no raise, and every function
\* it calls catches Exception, so it never does.
calculate_current_bill(schedule, usage_kwh, usage_by_tou, demand_kw, power_factor, billing_month, has_energy_charges, has_demand_charges, has_reactive_demand, failing) ==
    LET service == calculate_service_charges(schedule, failing)
        energy == IF has_energy_charges /\ usage_kwh # 0
                  THEN calculate_energy_charges(schedule, usage_kwh, usage_by_tou,
                                                billing_month, failing)
                  ELSE NoCharge
        demand == IF has_demand_charges /\ demand_kw # 0
                  THEN calculate_demand_charges(schedule, demand_kw, power_factor,
                                                billing_month, has_reactive_demand,
                                                failing)
                  ELSE NoCharge
        other == calculate_other_charges(schedule, failing)
        subtotal == service.charge + energy.charge + demand.charge + other.charge
        taxes == calculate_taxes(schedule, subtotal, failing)
        total_bill == subtotal + taxes.amount
    IN [service_charge |-> service.charge,
        energy_charge |-> energy.charge,
        demand_charge |-> demand.charge,
        other_charges |-> other.charge,
        tax_amount |-> taxes.amount,
        total |-> total_bill,
        using_default_tax |-> taxes.using_default_tax,
        bill_df |-> create_bill_dataframe(service.breakdown, energy.breakdown,
                        demand.breakdown, other.breakdown, subtotal,
                        taxes.breakdown, total_bill,
                        has_energy_charges, has_demand_charges),
        energy_steps |-> energy.steps,
        raised |-> FALSE,
        exact |-> energy.exact /\ demand.exact /\ taxes.exact,
        warned |-> \/ service.warned \/ energy.warned \/ demand.warned
                   \/ other.warned \/ taxes.warned]

(***************************************************************************)
(* Specification of calculate_current_bill: every call on every schedule   *)
(* of up to MaxRows rows of BcCatalog, with the flags check_rate_components*)
(* gave for the schedule.  The usage-by-period map is keyed by TimeOfDay   *)
(* (the rows share one Description).                                       *)
(***************************************************************************)
BcCatalog ==
    << [BlankRow("ServiceCharge_Table") EXCEPT !.Rate = Some(100000)],
       [BlankRow("ServiceCharge_Table") EXCEPT !.Rate = Unparsable],
       [BlankRow("ServiceCharge_Table") EXCEPT !.Rate = Some(50000)],
       [BlankRow("Energy_Table") EXCEPT !.Rate = Some(1200)],
       [BlankRow("IncrementalEnergy_Table") EXCEPT
            !.Rate = Some(1000), !.start = 0, !.end = Some(500)],
       [BlankRow("IncrementalEnergy_Table") EXCEPT
            !.Rate = Unparsable, !.start = 0, !.end = Some(500)],
       [BlankRow("IncrementalEnergy_Table") EXCEPT
            !.Rate = Some(1500), !.start = 500, !.end = None],
       [BlankRow("IncrementalEnergy_Table") EXCEPT
            !.Rate = Some(2000), !.start = 0, !.end = None, !.Season = "Summer"],
       [BlankRow("EnergyTime_Table") EXCEPT
            !.Rate = Some(1000), !.TimeOfDay = "Peak"],
       [BlankRow("EnergyTime_Table") EXCEPT
            !.Rate = Some(2000), !.TimeOfDay = "Off-Peak", !.Season = "Winter"],
       [BlankRow("EnergyTime_Table") EXCEPT
            !.Rate = Some(3000), !.TimeOfDay = "Peak", !.Season = "Spring"],
       [BlankRow("Demand_Table") EXCEPT !.Rate = Some(50000)],
       [BlankRow("DemandTime_Table") EXCEPT
            !.Rate = Some(80000), !.Season = "Summer"],
       [BlankRow("IncrementalDemand_Table") EXCEPT
            !.Rate = Some(40000), !.start = 0, !.end = Some(50)],
       [BlankRow("ReactiveDemand_Table") EXCEPT !.Rate = Some(20000)],
       [BlankRow("OtherCharges_Table") EXCEPT !.ChargeType = Some(25000)],
       [BlankRow("OtherCharges_Table") EXCEPT !.ChargeType = Unparsable],
       [BlankRow("TaxInfo_Table") EXCEPT !.Rate = Some(5)],
       [BlankRow("TaxInfo_Table") EXCEPT !.Rate = Unparsable] >>

RECURSIVE BcPicks(_, _)
BcPicks(n, lo) ==
    IF n = 0 THEN {<<>>}
    ELSE {<<>>} \cup UNION {{<<k>> \o p : p \in BcPicks(n - 1, k + 1)} :
                               k \in lo..Len(BcCatalog)}

BcSchedules == {[k \in 1..Len(p) |-> BcCatalog[p[k]]] : p \in BcPicks(MaxRows, 1)}

BillingMonths == {"January", "July"}
PowerFactors == {90}
UsageByTouValues ==
    {<<>>, ("Peak" :> 700) @@ ("Off-Peak" :> 500),
     ("Peak" :> 700) @@ ("Off-Peak" :> 300)}
FailingSets ==
    {{}, {"ServiceCharge_Table"}, {"IncrementalEnergy_Table"}, {"TaxInfo_Table"}}

CurInit ==
    /\ now = Epoch
    /\ inc = IncIdle
    /\ flt = FltIdle
    /\ call = CallIdle
    /\ dist = DistIdle
    /\ cur = CurIdle
    /\ twalk = WalkIdle
    /\ tin = TinIdle
    /\ ses = NoSession

CalculateCurrentBill ==
    /\ cur.pc = "idle"
    /\ \E schedule \in BcSchedules, usage \in UsageValues,
          usage_by_tou \in UsageByTouValues, power_factor \in PowerFactors,
          billing_month \in BillingMonths, failing \in FailingSets :
          LET rate_components == check_rate_components(schedule)
          IN cur' = [pc |-> "done",
                     schedule |-> schedule,
                     usage_kwh |-> usage[1],
                     usage_by_tou |-> usage_by_tou,
                     demand_kw |-> usage[2],
                     power_factor |-> power_factor,
                     billing_month |-> billing_month,
                     failing |-> failing,
                     result |-> calculate_current_bill(schedule, usage[1],
                                    usage_by_tou, usage[2], power_factor,
                                    billing_month,
                                    rate_components.has_energy_charges,
                                    rate_components.has_demand_charges,
                                    rate_components.has_reactive_demand,
                                    failing)]
    /\ UNCHANGED <<now, inc, flt, call, dist, twalk, tin, ses>>

CurReturn ==
    /\ cur.pc = "done"
    /\ cur' = CurIdle
    /\ UNCHANGED <<now, inc, flt, call, dist, twalk, tin, ses>>

CurNext == CalculateCurrentBill \/ CurReturn

SpecCur == CurInit /\ [][CurNext]_vars

CurDone == cur.pc = "done"

\* the model's integer amounts are the exact amounts of every bill computed
CurArithmeticExact == CurDone => cur.result.exact

(***************************************************************************)
(* Claims about calculate_current_bill.                                    *)
(***************************************************************************)
CategoryTables(kind) ==
    CASE kind = "service" -> {"ServiceCharge_Table"}
      [] kind = "energy" -> {"Energy_Table", "EnergyTime_Table",
                             "IncrementalEnergy_Table"}
      [] kind = "demand" -> {"Demand_Table", "DemandTime_Table",
                             "IncrementalDemand_Table", "ReactiveDemand_Table"}
      [] kind = "other" -> {"OtherCharges_Table"}

CategoryTotal(result, kind) ==
    CASE kind = "service" -> result.service_charge
      [] kind = "energy" -> result.energy_charge
      [] kind = "demand" -> result.demand_charge
      [] kind = "other" -> result.other_charges

ChargeKinds == {"service", "energy", "demand", "other"}

\* a component is applicable in a billing month when it names no season or
\* the season of that month
ApplicableIn(row, billing_month) ==
    row.Season = "" \/ lower(row.Season) = lower(SeasonOfMonth(billing_month))

NoApplicableComponents(kind) ==
    \A k \in 1..Len(cur.schedule) :
        cur.schedule[k].table \in CategoryTables(kind)
            => ~ApplicableIn(cur.schedule[k], cur.billing_month)

LinesOf(kind) ==
    {j \in 1..Len(cur.result.bill_df) : cur.result.bill_df[j].kind = kind}

\* C16: when a category has no applicable components, the bill reports that
\* category's total as exactly 0 and the itemized breakdown holds no line
\* item of that category.
C16_EmptyCategory ==
    CurDone =>
        \A kind \in ChargeKinds :
            NoApplicableComponents(kind)
                => /\ CategoryTotal(cur.result, kind) = 0
                   /\ LinesOf(kind) = {}

\* the season checks of bill_calculator.py leave out every row of the category
AllRowsSkipped(kind) ==
    \A k \in 1..Len(cur.schedule) :
        cur.schedule[k].table \in CategoryTables(kind)
            => IF cur.schedule[k].table \in {"IncrementalEnergy_Table", "EnergyTime_Table"}
               THEN ~season_applies(cur.schedule[k].Season, cur.billing_month)
               ELSE /\ cur.schedule[k].table = "DemandTime_Table"
                    /\ ~DemandSeasonApplies(cur.schedule[k].Season, cur.billing_month)

\* What does hold, with the season checks as the code makes them: the
\* category's total is 0, and the only line the bill can hold for it is one
\* placeholder line of amount 0, present exactly when the schedule has rows in
\* the energy or demand tables.
EmptyCategoryTotalZero ==
    CurDone =>
        \A kind \in ChargeKinds :
            AllRowsSkipped(kind)
                => /\ CategoryTotal(cur.result, kind) = 0
                   /\ \A j \in LinesOf(kind) :
                          /\ cur.result.bill_df[j].Amount = 0
                          /\ cur.result.bill_df[j].Description
                                 \in {"Energy Charges", "Demand Charges"}
                   /\ Cardinality(LinesOf(kind)) =
                          IF \/ kind = "energy"
                                /\ check_rate_components(cur.schedule).has_energy_charges
                             \/ kind = "demand"
                                /\ check_rate_components(cur.schedule).has_demand_charges
                          THEN 1 ELSE 0

\* the place of a kind of row in the bill table
KindRank(kind) ==
    CASE kind = "service" -> 1
      [] kind = "energy" -> 2
      [] kind = "demand" -> 3
      [] kind = "other" -> 4
      [] kind = "subtotal" -> 5
      [] kind = "percentage" -> 6
      [] kind = "tax" -> 7
      [] kind = "total" -> 8

\* C17: in every bill table, the service lines precede the energy lines,
\* which precede the demand lines, which precede the other-charge lines; then
\* comes exactly one 'Subtotal' row, then the percentage lines, then the tax
\* lines, and the last row is the single 'Total' row.
C17_BreakdownOrdering ==
    CurDone =>
        LET bill_df == cur.result.bill_df
        IN /\ \A i, j \in 1..Len(bill_df) :
                  i < j => KindRank(bill_df[i].kind) <= KindRank(bill_df[j].kind)
           /\ Cardinality(LinesOf("subtotal")) = 1
           /\ Cardinality(LinesOf("total")) = 1
           /\ \A j \in 1..Len(bill_df) :
                  /\ bill_df[j].Description = "Subtotal" <=> bill_df[j].kind = "subtotal"
                  /\ bill_df[j].Description = "Total" <=> bill_df[j].kind = "total"
           /\ bill_df[Len(bill_df)].kind = "total"

\* a bill with service, demand, other-charge and tax lines
C17_Witness ==
    /\ CurDone
    /\ LinesOf("service") # {}
    /\ LinesOf("demand") # {}
    /\ LinesOf("other") # {}
    /\ LinesOf("tax") # {}
    /\ cur.result.demand_charge > 0
    /\ cur.result.other_charges > 0

\* the tables calculate_current_bill queries in the call: a failed query ends
\* the energy function, so the tables after it are not queried
Queried(table) ==
    LET rate_components == check_rate_components(cur.schedule)
    IN \/ table \in {"ServiceCharge_Table", "OtherCharges_Table", "TaxInfo_Table"}
       \/ /\ rate_components.has_energy_charges
          /\ cur.usage_kwh # 0
          /\ \/ table = "Energy_Table"
             \/ table = "IncrementalEnergy_Table" /\ "Energy_Table" \notin cur.failing

FetchFailed == \E table \in cur.failing : Queried(table)

\* C19: when the fetch of a category's components fails during a
\* calculation, the caller gets an error outcome and no bill; a total in
\* which the failed category counts as 0 is never returned.
C19_FetchFailureFatal ==
    (CurDone /\ FetchFailed) => cur.result.raised

\* What does hold: a bill is returned with a warning; when the service query
\* fails the service total is 0, and when the tax query fails the tax is the
\* default rate on the subtotal.
FetchFailureCountsAsZero ==
    (CurDone /\ FetchFailed)
        => /\ ~cur.result.raised
           /\ cur.result.warned
           /\ "ServiceCharge_Table" \in cur.failing => cur.result.service_charge = 0
           /\ "TaxInfo_Table" \in cur.failing
                  => /\ cur.result.using_default_tax
                     /\ cur.result.tax_amount =
                            PercentOf(DefaultTaxRate,
                                      cur.result.total - cur.result.tax_amount)

\* a failed service query on a schedule with a service charge: the bill's
\* service total is 0
ServiceFetchFailureReached ==
    /\ CurDone
    /\ "ServiceCharge_Table" \in cur.failing
    /\ \E k \in 1..Len(cur.schedule) :
           /\ cur.schedule[k].table = "ServiceCharge_Table"
           /\ ~IsBad(cur.schedule[k].Rate)
    /\ cur.result.service_charge = 0
    /\ cur.result.total > 0

Malformed(row) ==
    \/ IsBad(row.Rate) \/ IsBad(row.ChargeType) \/ IsBad(row.end)
    \/ IsBad(row.MinKV) \/ IsBad(row.MaxKV) \/ IsBad(row.Min) \/ IsBad(row.Max)

MalformedRows == {k \in 1..Len(cur.schedule) : Malformed(cur.schedule[k])}

\* the bill of the same call on the schedule without its k-th row
CurResultWithout(k) ==
    LET rate_components == check_rate_components(cur.schedule)
    IN calculate_current_bill(Without(cur.schedule, k), cur.usage_kwh,
           cur.usage_by_tou, cur.demand_kw, cur.power_factor, cur.billing_month,
           rate_components.has_energy_charges,
           rate_components.has_demand_charges,
           rate_components.has_reactive_demand, cur.failing)

SameCharges(a, b) ==
    \A kind \in ChargeKinds : CategoryTotal(a, kind) = CategoryTotal(b, kind)

\* C20: when one component row has an unparsable numeric field, that row
\* alone contributes 0 and every other component, of the same and of the
\* other categories, contributes what it contributes without the malformed
\* row: a malformed tier does not stop the remaining tiers from being
\* charged, and the bill is produced.
C20_MalformedIsolated ==
    (CurDone /\ cur.failing = {})
        => \A k \in MalformedRows :
               MalformedRows = {k}
                   => /\ ~cur.result.raised
                      /\ SameCharges(cur.result, CurResultWithout(k))

\* What does hold: the bill is produced, and a malformed row of a table whose
\* loop has a try of its own in the loop body (the other charges) is isolated.
MalformedOtherChargeIsolated ==
    (CurDone /\ cur.failing = {})
        => \A k \in MalformedRows :
               (MalformedRows = {k} /\ cur.schedule[k].table = "OtherCharges_Table")
                   => /\ ~cur.result.raised
                      /\ SameCharges(cur.result, CurResultWithout(k))

(***************************************************************************)
(* Specification of the tiered loops: the loops of calculate_energy_charges*)
(* and calculate_demand_charges (bill_calculator.py) and the walk of       *)
(* calculate_incremental_charges (app.py), run on every tier list of up to *)
(* MaxTiers entries.  The tiers name no season.                            *)
(***************************************************************************)
TierRow(table, entry) ==
    [BlankRow(table) EXCEPT
        !.start = entry.start, !.end = entry.end, !.Rate = entry.Rate]

TierRows(table, entries) ==
    [k \in 1..Len(entries) |-> TierRow(table, entries[k])]

\* the remaining usage at the head of every pass of the walk of
\* calculate_incremental_charges, and at its end
RECURSIVE IncRemainders(_)
IncRemainders(f) ==
    IF f.pc # "loop" THEN <<f.remaining_usage>>
    ELSE <<f.remaining_usage>> \o IncRemainders(IncStep(f))

WalkInit ==
    /\ now = Epoch
    /\ inc = IncIdle
    /\ flt = FltIdle
    /\ call = CallIdle
    /\ dist = DistIdle
    /\ cur = CurIdle
    /\ twalk = WalkIdle
    /\ tin = TinIdle
    /\ ses = NoSession

RunTiers ==
    /\ twalk.pc = "idle"
    /\ \E usage \in TierUsages, entries \in TierLists :
          twalk' = [pc |-> "done",
                    usage |-> usage,
                    entries |-> entries,
                    energy |-> BcTiers(TierRows("IncrementalEnergy_Table", entries),
                                       "energy", usage, "July", TRUE),
                    demand |-> BcTiers(TierRows("IncrementalDemand_Table", entries),
                                       "demand", usage, "July", FALSE),
                    app |-> IncRemainders(IncEnter(usage, entries))]
    /\ UNCHANGED <<now, inc, flt, call, dist, cur, tin, ses>>

WalkReturn ==
    /\ twalk.pc = "done"
    /\ twalk' = WalkIdle
    /\ UNCHANGED <<now, inc, flt, call, dist, cur, tin, ses>>

WalkNext == RunTiers \/ WalkReturn

SpecWalk == WalkInit /\ [][WalkNext]_vars

WalkDone == twalk.pc = "done"

\* C22: the tiered loop of calculate_energy_charges bills progressively: for
\* contiguous tiers that are all in season and any usage U >= 0, the tiered
\* charge is the sum over tiers of rate * min(max(U - start, 0), end - start);
\* tiers [0-500 @0.10, 500-inf @0.15] with 800 kWh give 95.
C22_EnergyTiersProgressive ==
    (WalkDone /\ Contiguous(twalk.entries))
        => /\ Amounts(twalk.energy.items) = MarginalCharge(twalk.usage, twalk.entries)
           /\ (twalk.usage = 800 /\ twalk.entries = ScenarioBTiers)
                  => Amounts(twalk.energy.items) = 950000

\* What does hold, on tiers that all have end > start: the loop charges the
\* first tier as claimed and never more than the progressive charge;
\* Scenario B gives 50.
EnergyTiersAtMostProgressive ==
    (/\ WalkDone /\ Contiguous(twalk.entries)
     /\ PositiveWidths(twalk.entries) /\ NonNegativeRates(twalk.entries))
        => /\ Amounts(twalk.energy.items) <= MarginalCharge(twalk.usage, twalk.entries)
           /\ Amounts(twalk.energy.items)
                  >= MarginalCharge(twalk.usage, SubSeq(twalk.entries, 1, 1))
           /\ (twalk.usage = 800 /\ twalk.entries = ScenarioBTiers)
                  => Amounts(twalk.energy.items) = 500000

AllNonNegative(steps) == \A k \in 1..Len(steps) : steps[k] >= 0

TouMapCall ==
    /\ CurDone
    /\ DOMAIN cur.usage_by_tou # {}
    /\ check_rate_components(cur.schedule).has_energy_charges
    /\ cur.usage_kwh # 0
    /\ cur.failing = {}
    /\ MalformedRows = {}

\* the time-of-use energy lines of the bill
TouLines ==
    SelectSeq(cur.result.bill_df,
              LAMBDA item : /\ item.kind = "energy"
                            /\ item.Description \in DOMAIN cur.usage_by_tou)

\* sum over the periods that pass inseason of rate * map[period]
VerbatimCharge(inseason(_, _)) ==
    LET periods == Query(cur.schedule, "EnergyTime_Table")
    IN SumSeq([k \in 1..Len(periods) |->
                  IF inseason(periods[k], cur.billing_month)
                  THEN Val(periods[k].Rate)
                           * UsageOfPeriod(cur.usage_by_tou, periods[k])
                  ELSE 0])

DeclaredTotalMismatch ==
    cur.usage_by_tou["Peak"] + cur.usage_by_tou["Off-Peak"] # cur.usage_kwh

\* C21: with a non-empty usage-by-period map, the time-of-use energy charge
\* is the sum over the in-season periods of rate * map[period], no period's
\* usage is billed more than once, and a map that does not sum to the
\* declared total still gives a bill.
C21_TouVerbatim ==
    TouMapCall
        => /\ Amounts(TouLines) = VerbatimCharge(ApplicableIn)
           /\ \A i, j \in 1..Len(TouLines) :
                  TouLines[i].Description = TouLines[j].Description => i = j
           /\ ~cur.result.raised

CodeInSeason(row, billing_month) == season_applies(row.Season, billing_month)

\* What does hold: the charge is the sum of rate * map[period] over the
\* periods the code's season check lets through, whether or not the map sums
\* to the declared total, and the bill is produced.
TouVerbatimForPeriodsNotSkipped ==
    TouMapCall
        => /\ Amounts(TouLines) = VerbatimCharge(CodeInSeason)
           /\ ~cur.result.raised

\* a bill from a map that does not sum to the declared usage
TouMismatchBilled ==
    /\ TouMapCall
    /\ DeclaredTotalMismatch
    /\ Len(TouLines) = 2
    /\ Amounts(TouLines) > 0

LinesBefore(kind) ==
    SelectSeq(cur.result.bill_df,
              LAMBDA item : KindRank(item.kind) < KindRank(kind))

LinesOfKind(kind) ==
    SelectSeq(cur.result.bill_df, LAMBDA item : item.kind = kind)

\* C27: in every result of calculate_current_bill, runs in which a fetch or
\* a row fails included, the amounts of the rows before 'Subtotal' sum to the
\* 'Subtotal' amount, the amounts of the tax rows sum to tax_amount, and the
\* 'Total' amount is the Subtotal plus the sum of the tax rows.
C27_LineItemsAddUp ==
    CurDone =>
        /\ Len(LinesOfKind("subtotal")) = 1
        /\ Len(LinesOfKind("total")) = 1
        /\ Amounts(LinesBefore("subtotal")) = LinesOfKind("subtotal")[1].Amount
        /\ Amounts(LinesOfKind("tax")) = cur.result.tax_amount
        /\ LinesOfKind("total")[1].Amount =
               LinesOfKind("subtotal")[1].Amount + Amounts(LinesOfKind("tax"))

\* a bill of a run in which a query failed and a row was malformed, with
\* charges of two categories and a tax
C27_Witness ==
    /\ CurDone
    /\ FetchFailed
    /\ MalformedRows # {}
    /\ cur.result.other_charges > 0
    /\ cur.result.service_charge + cur.result.energy_charge > 0
    /\ cur.result.tax_amount > 0

(***************************************************************************)
(* calculate_bill of bill_calculator.py (lines 74-302), the calculator of  *)
(* the rate comparison.  One try encloses the whole calculation: a query   *)
(* that raises ends it with the categories summed so far and the default   *)
(* tax.                                                                    *)
(***************************************************************************)
\* lines 87-93: each row has its own try
ComparisonServiceCharge(schedule) ==
    LET data == Query(schedule, "ServiceCharge_Table")
        kept == Filter(data, [r \in RowSet(schedule) |-> ~IsBad(r.Rate)])
    IN SumSeq([k \in 1..Len(kept) |-> FloatOf(kept[k].Rate, 0)])

\* the queries in the order calculate_bill executes them
ComparisonQueries(usage_kwh, demand_kw, power_factor) ==
    <<"ServiceCharge_Table">>
    \o (IF usage_kwh # 0
        THEN <<"Energy_Table", "IncrementalEnergy_Table", "EnergyTime_Table">>
        ELSE <<>>)
    \o (IF demand_kw # 0
        THEN <<"Demand_Table", "DemandTime_Table", "IncrementalDemand_Table">>
             \o (IF power_factor < 100 THEN <<"ReactiveDemand_Table">> ELSE <<>>)
        ELSE <<>>)
    \o <<"OtherCharges_Table", "TaxInfo_Table">>

\* the tables whose rows the calculation gets: those queried before the first
\* query that raises
RECURSIVE Fetched(_, _)
Fetched(queries, failing) ==
    IF queries = <<>> \/ Head(queries) \in failing THEN {}
    ELSE {Head(queries)} \cup Fetched(Tail(queries), failing)

bc_calculate_bill(schedule, usage_kwh, demand_kw, power_factor, billing_month, failing) ==
    LET queries == ComparisonQueries(usage_kwh, demand_kw, power_factor)
        fetched == Fetched(queries, failing)
        got(table) == table \in fetched
        part(table, items) == IF got(table) THEN Amounts(items) ELSE 0
        service_charge ==
            IF got("ServiceCharge_Table") THEN ComparisonServiceCharge(schedule) ELSE 0
        energy_charge ==
            part("Energy_Table", EnergyFlatItems(schedule, usage_kwh))
            + part("IncrementalEnergy_Table",
                   BcTiers(Query(schedule, "IncrementalEnergy_Table"), "energy",
                           usage_kwh, billing_month, TRUE).items)
            + part("EnergyTime_Table",
                   TouEvenItems(Query(schedule, "EnergyTime_Table"), usage_kwh,
                                Len(Query(schedule, "EnergyTime_Table")),
                                billing_month))
        demand_charge ==
            part("Demand_Table", DemandFlatItems(schedule, demand_kw))
            + part("DemandTime_Table", DemandTouItems(schedule, demand_kw, billing_month))
            + part("IncrementalDemand_Table",
                   BcTiers(Query(schedule, "IncrementalDemand_Table"), "demand",
                           demand_kw, billing_month, FALSE).items)
            + part("ReactiveDemand_Table",
                   ReactiveItems(schedule, demand_kw, power_factor))
        other_charges ==
            IF got("OtherCharges_Table")
            THEN calculate_other_charges(schedule, {}).charge ELSE 0
        subtotal == service_charge + energy_charge + demand_charge + other_charges
        \* lines 256-270, and 275-282 when a query raised
        taxes == IF got("TaxInfo_Table") THEN calculate_taxes(schedule, subtotal, {})
                 ELSE DefaultTax(subtotal, TRUE)
    IN [service_charge |-> service_charge,
        energy_charge |-> energy_charge,
        demand_charge |-> demand_charge,
        other_charges |-> other_charges,
        tax_amount |-> taxes.amount,
        total |-> subtotal + taxes.amount,
        using_default_tax |-> taxes.using_default_tax]

ComparisonOf(frame) ==
    bc_calculate_bill(frame.schedule, frame.usage_kwh, frame.demand_kw,
                      frame.power_factor, frame.billing_month, frame.failing)

SameBill(a, b) ==
    /\ SameCharges(a, b)
    /\ a.tax_amount = b.tax_amount
    /\ a.total = b.total
    /\ a.using_default_tax = b.using_default_tax

\* every query succeeds, every row is well formed, no usage-by-period map
PlainCall ==
    /\ CurDone
    /\ cur.failing = {}
    /\ MalformedRows = {}
    /\ DOMAIN cur.usage_by_tou = {}

\* C26: for every schedule with well-formed rows and every usage, demand,
\* power factor and billing month, without a usage-by-period map,
\* calculate_bill of bill_calculator.py returns the same total, category
\* amounts and default-tax flag as calculate_current_bill called with the
\* flags that match the schedule's tables.
C26_ComparisonAgrees ==
    PlainCall => SameBill(ComparisonOf(cur), cur.result)

\* What does hold: the two agree on every schedule that has a row in a demand
\* table or no reactive row, and whenever no demand is entered.
ComparisonAgreesUnlessReactiveOnly ==
    (/\ PlainCall
     /\ \/ check_rate_components(cur.schedule).has_demand_charges
        \/ ~check_rate_components(cur.schedule).has_reactive_demand
        \/ cur.demand_kw = 0)
        => SameBill(ComparisonOf(cur), cur.result)

(***************************************************************************)
(* handle_tou_inputs of ui_components.py (lines 198-251): one number input *)
(* for every period but the last, which is filled with what remains.  The  *)
(* periods have distinct display keys (main.py lines 300-313), so the map  *)
(* usage_by_tou is modelled as the sequence of its values in period order. *)
(***************************************************************************)
MaxInputPeriods == 3    \* most time-of-use periods of a schedule
TouTotals == {0, 500, 800, 1000}
TouEntryValues == {0, 200, 300, 500, 700, 800, 1000}

\* number_input with min_value = 0.0 and max_value = usage_kwh (lines 229-236)
AcceptedEntries(usage_kwh) == {v \in TouEntryValues : 0 <= v /\ v <= usage_kwh}

\* the loop of lines 214-243; entries are the values of the number inputs
RECURSIVE TouInputLoop(_, _)
TouInputLoop(entries, remaining_kwh) ==
    IF entries = <<>> THEN <<remaining_kwh>>
    ELSE <<Head(entries)>> \o TouInputLoop(Tail(entries), remaining_kwh - Head(entries))

handle_tou_inputs(usage_kwh, entries) ==
    LET usage_by_tou == TouInputLoop(entries, usage_kwh)
        sum_tou == SumSeq(usage_by_tou)
    IN [usage_by_tou |-> usage_by_tou,
        warning |-> sum_tou # usage_kwh /\ usage_kwh > 0]

TinInit ==
    /\ now = Epoch
    /\ inc = IncIdle
    /\ flt = FltIdle
    /\ call = CallIdle
    /\ dist = DistIdle
    /\ cur = CurIdle /\ twalk = WalkIdle /\ tin = TinIdle /\ ses = NoSession

HandleTouInputs ==
    /\ tin.pc = "idle"
    /\ \E usage_kwh \in TouTotals, n \in 1..MaxInputPeriods :
         \E entries \in [1..(n - 1) -> AcceptedEntries(usage_kwh)] :
            tin' = [pc |-> "done", usage_kwh |-> usage_kwh, entries |-> entries,
                    result |-> handle_tou_inputs(usage_kwh, entries)]
    /\ UNCHANGED <<now, inc, flt, call, dist, cur, twalk, ses>>

TinReturn ==
    /\ tin.pc = "done"
    /\ tin' = TinIdle
    /\ UNCHANGED <<now, inc, flt, call, dist, cur, twalk, ses>>

TinNext == HandleTouInputs \/ TinReturn

SpecTin == TinInit /\ [][TinNext]_vars

TinDone == tin.pc = "done"

\* C30: for every total >= 0 and every combination of accepted entries (each
\* between 0 and the total), every value of usage_by_tou, the automatically
\* filled last period included, is >= 0 and the values sum to the total.
C30_TouInputsValidSplit ==
    TinDone =>
        /\ \A k \in 1..Len(tin.result.usage_by_tou) : tin.result.usage_by_tou[k] >= 0
        /\ SumSeq(tin.result.usage_by_tou) = tin.usage_kwh

\* What does hold: the values always sum to the total (so the warning of lines
\* 246-248 is never shown), and all of them are >= 0 exactly when the entries
\* sum to at most the total, which two periods (one entry) guarantee.
TouInputsSumToTotal ==
    TinDone =>
        /\ SumSeq(tin.result.usage_by_tou) = tin.usage_kwh
        /\ ~tin.result.warning
        /\ (\A k \in 1..Len(tin.result.usage_by_tou) : tin.result.usage_by_tou[k] >= 0)
               <=> SumSeq(tin.entries) <= tin.usage_kwh
        /\ Len(tin.entries) <= 1 => SumSeq(tin.entries) <= tin.usage_kwh

(***************************************************************************)
(* The bill-estimation page of main.py.  Streamlit runs main() from top to *)
(* bottom once for every change of a widget or press of a button; ses is   *)
(* st.session_state between two runs, widget values included.  Each action *)
(* is one run.  The utility is fixed and has the schedules of              *)
(* ScheduleTable; schedule id 0 stands for the empty choice "".            *)
(***************************************************************************)
ScheduleIds == {1, 2, 3, 4, 5}
NoSchedule == 0 * 1

ScheduleTable ==
    (1 :> << [BlankRow("ServiceCharge_Table") EXCEPT !.Rate = Some(100000)],
              [BlankRow("Energy_Table") EXCEPT !.Rate = Some(1200)] >>)
    @@ (2 :> << [BlankRow("ServiceCharge_Table") EXCEPT !.Rate = Some(50000)],
                 [BlankRow("IncrementalEnergy_Table") EXCEPT
                      !.Rate = Some(1000), !.start = 0, !.end = Some(500)],
                 [BlankRow("IncrementalEnergy_Table") EXCEPT
                      !.Rate = Some(1500), !.start = 500, !.end = None] >>)
    @@ (3 :> << [BlankRow("EnergyTime_Table") EXCEPT
                      !.Rate = Some(1000), !.TimeOfDay = "Peak"],
                 [BlankRow("EnergyTime_Table") EXCEPT
                      !.Rate = Some(2000), !.TimeOfDay = "Off-Peak"],
                 [BlankRow("TaxInfo_Table") EXCEPT !.Rate = Some(5)] >>)
    @@ (4 :> << [BlankRow("ServiceCharge_Table") EXCEPT !.Rate = Some(100000)],
                 [BlankRow("OtherCharges_Table") EXCEPT !.ChargeType = Some(25000)] >>)
    @@ (5 :> << [BlankRow("Energy_Table") EXCEPT !.Rate = Some(1200)],
                 [BlankRow("Demand_Table") EXCEPT !.Rate = Some(50000)] >>)

\* values typed into "Total Energy Usage (kWh)"; 0 is the initial value
UsageKwhValues == {0, 1200}
\* max_selections of the multiselect
MaxSelections == 3
DefaultPowerFactor == 9 * 10      \* usage_inputs.get("power_factor", 0.9)
\* the month "Billing Month" shows; it is left as it is
SessionMonths == {"July"}

\* configure_page (config.py lines 13-25) on an empty session, with the
\* initial values of the widgets
NoEvent == [calculate_pressed |-> FALSE, compare_pressed |-> FALSE, selected |-> {}]

FreshSession(billing_month) ==
    [pc |-> "page",
     event |-> NoEvent,
     selected_schedule_id |-> NoSchedule,
     billing_month |-> billing_month,
     usage_kwh |-> 0,
     demand_kw |-> 0,
     bill_calculated |-> FALSE,
     current_bill |-> None,
     bill_df |-> None,
     comparison_results |-> <<>>,
     selected_comparison_schedules |-> {}]

\* handle_tou_inputs with its number inputs left at their initial 0: the last
\* period gets the whole usage
InitialTouSplit(schedule, usage_kwh) ==
    LET periods == Query(schedule, "EnergyTime_Table")
        n == Len(periods)
        split == handle_tou_inputs(usage_kwh, [k \in 1..(n - 1) |-> 0]).usage_by_tou
    IN [t \in {periods[k].TimeOfDay : k \in 1..n} |->
           split[CHOOSE k \in 1..n : periods[k].TimeOfDay = t]]

\* create_usage_inputs (ui_components.py lines 106-196), followed by the
\* defaults of usage_inputs.get at main.py lines 357-361 and 456-459: a
\* value the schedule has no input for is 0, the power factor 0.9
create_usage_inputs(s, schedule, rate_components) ==
    LET usage_kwh == IF rate_components.has_energy_charges THEN s.usage_kwh ELSE 0
    IN [usage_kwh |-> usage_kwh,
        usage_by_tou |->
            IF rate_components.has_energy_charges /\ HasRows(schedule, {"EnergyTime_Table"})
            THEN InitialTouSplit(schedule, usage_kwh) ELSE <<>>,
        demand_kw |-> IF rate_components.has_demand_charges THEN s.demand_kw ELSE 0,
        power_factor |-> DefaultPowerFactor,
        billing_month |-> s.billing_month]

\* the values a bill was computed from
InputsOf(usage_inputs) ==
    [usage_kwh |-> usage_inputs.usage_kwh,
     demand_kw |-> usage_inputs.demand_kw,
     power_factor |-> usage_inputs.power_factor,
     billing_month |-> usage_inputs.billing_month]

\* A variant of the storing step that keeps nothing of the calculation.
StoreNothing(s, schedule_id, usage_inputs, result) == s

\* main.py lines 366-382: the results of a completed calculation are stored
\* and the earlier comparison is cleared
StoreResults(s, schedule_id, usage_inputs, result) ==
    [s EXCEPT !.bill_df = Some(result.bill_df),
              !.current_bill = Some([schedule_id |-> schedule_id,
                                     total |-> result.total,
                                     inputs |-> InputsOf(usage_inputs)]),
              !.comparison_results = <<>>]

\* process_calculation_request (main.py lines 328-404); schedule is the rows
\* the database holds for schedule_id.  The required inputs of lines 334-337
\* are always present, a number input always has a value.
process_calculation_request(s, schedule_id, schedule, usage_inputs, rate_components, calculate_pressed) ==
    IF schedule_id = NoSchedule \/ ~calculate_pressed THEN s
    ELSE LET flagged == [s EXCEPT !.bill_calculated = TRUE]
             result == calculate_current_bill(schedule, usage_inputs.usage_kwh,
                           usage_inputs.usage_by_tou, usage_inputs.demand_kw,
                           usage_inputs.power_factor, usage_inputs.billing_month,
                           rate_components.has_energy_charges,
                           rate_components.has_demand_charges,
                           rate_components.has_reactive_demand, {})
         IN IF result.raised THEN flagged
            ELSE StoreResults(flagged, schedule_id, usage_inputs, result)

\* the value process_calculation_request returns
ResultsShown(s, schedule_id, calculate_pressed) ==
    schedule_id # NoSchedule /\ (calculate_pressed \/ s.bill_calculated)

\* the options of the multiselect: the utility's schedules other than the
\* selected one (main.py line 414)
OtherSchedules(schedule_id) == ScheduleIds \ {schedule_id}

RECURSIVE InIdOrder(_)
InIdOrder(ids) ==
    IF ids = {} THEN <<>>
    ELSE LET least == CHOOSE i \in ids : \A j \in ids : i <= j
         IN <<least>> \o InIdOrder(ids \ {least})

\* main.py lines 453-464: the bill of one selected schedule
ComparisonBill(schedule_id, usage_inputs) ==
    [schedule_id |-> schedule_id,
     total |-> bc_calculate_bill(ScheduleTable[schedule_id], usage_inputs.usage_kwh,
                                 usage_inputs.demand_kw, usage_inputs.power_factor,
                                 usage_inputs.billing_month, {}).total,
     inputs |-> InputsOf(usage_inputs)]

\* display_comparison_section (main.py lines 407-495).  selected is the value
\* of the multiselect in this run.  A stored selection that is not among the
\* options makes st.multiselect raise on its default, and the except of line
\* 493 ends the section.  The selected schedules are taken in id order.
display_comparison_section(s, schedule_id, usage_inputs, selected, compare_pressed) ==
    IF OtherSchedules(schedule_id) = {} THEN s
    ELSE IF ~(s.selected_comparison_schedules \subseteq OtherSchedules(schedule_id)) THEN s
    ELSE LET stored == [s EXCEPT !.selected_comparison_schedules = selected]
             order == InIdOrder(selected)
         IN IF selected # {} /\ compare_pressed
            THEN [stored EXCEPT !.comparison_results =
                     <<s.current_bill>>
                     \o [k \in 1..Len(order) |->
                            Some(ComparisonBill(order[k], usage_inputs))]]
            ELSE stored

\* the rows of the selected schedule; none for the empty choice
SelectedSchedule(s) ==
    IF s.selected_schedule_id = NoSchedule THEN <<>>
    ELSE ScheduleTable[s.selected_schedule_id]

\* A change of a widget or a press of a button starts a run of main(): the
\* session waits for the run with the buttons' values and the value of the
\* multiselect
Trigger(s, calculate_pressed, compare_pressed, selected) ==
    [s EXCEPT !.pc = "rerun",
              !.event = [calculate_pressed |-> calculate_pressed,
                         compare_pressed |-> compare_pressed,
                         selected |-> selected]]

\* the comparison section is on the page with its multiselect and button
ComparisonOnPage(s) ==
    /\ ResultsShown(s, s.selected_schedule_id, FALSE)
    /\ OtherSchedules(s.selected_schedule_id) # {}
    /\ s.selected_comparison_schedules \subseteq OtherSchedules(s.selected_schedule_id)

SessionInit ==
    /\ now = Epoch
    /\ inc = IncIdle
    /\ flt = FltIdle
    /\ call = CallIdle
    /\ dist = DistIdle
    /\ cur = CurIdle /\ twalk = WalkIdle /\ tin = TinIdle
    /\ \E billing_month \in SessionMonths : ses = FreshSession(billing_month)

\* another entry of "Select Rate Schedule" is chosen (select_schedule, lines
\* 209-257)
SelectSchedule ==
    /\ ses.pc = "page"
    /\ \E schedule_id \in (ScheduleIds \cup {NoSchedule}) \ {ses.selected_schedule_id} :
          ses' = Trigger([ses EXCEPT !.selected_schedule_id = schedule_id],
                         FALSE, FALSE, ses.selected_comparison_schedules)
    /\ UNCHANGED <<now, inc, flt, call, dist, cur, twalk, tin>>

\* another value is typed into "Total Energy Usage (kWh)"
EditUsage ==
    /\ ses.pc = "page"
    /\ ses.selected_schedule_id # NoSchedule
    /\ check_rate_components(SelectedSchedule(ses)).has_energy_charges
    /\ \E usage_kwh \in UsageKwhValues \ {ses.usage_kwh} :
          ses' = Trigger([ses EXCEPT !.usage_kwh = usage_kwh],
                         FALSE, FALSE, ses.selected_comparison_schedules)
    /\ UNCHANGED <<now, inc, flt, call, dist, cur, twalk, tin>>

\* "Calculate Bill Estimate" is pressed
PressCalculate ==
    /\ ses.pc = "page"
    /\ ses.selected_schedule_id # NoSchedule
    /\ ses' = Trigger(ses, TRUE, FALSE, ses.selected_comparison_schedules)
    /\ UNCHANGED <<now, inc, flt, call, dist, cur, twalk, tin>>

\* one schedule is added to or removed from "Select schedules to compare"
ChangeComparison ==
    /\ ses.pc = "page"
    /\ ComparisonOnPage(ses)
    /\ \E schedule_id \in OtherSchedules(ses.selected_schedule_id) :
          LET selected == IF schedule_id \in ses.selected_comparison_schedules
                          THEN ses.selected_comparison_schedules \ {schedule_id}
                          ELSE ses.selected_comparison_schedules \cup {schedule_id}
          IN /\ Cardinality(selected) <= MaxSelections
             /\ ses' = Trigger(ses, FALSE, FALSE, selected)
    /\ UNCHANGED <<now, inc, flt, call, dist, cur, twalk, tin>>

\* "Compare Rates" is pressed
PressCompare ==
    /\ ses.pc = "page"
    /\ ComparisonOnPage(ses)
    /\ ses' = Trigger(ses, FALSE, TRUE, ses.selected_comparison_schedules)
    /\ UNCHANGED <<now, inc, flt, call, dist, cur, twalk, tin>>

\* "Reset All" (main.py lines 41-46): every key is deleted and the page runs
\* again, configure_page filling the empty session
ResetAll ==
    /\ ses.pc = "page"
    /\ ses # FreshSession(ses.billing_month)
    /\ ses' = Trigger(FreshSession(ses.billing_month), FALSE, FALSE, {})
    /\ UNCHANGED <<now, inc, flt, call, dist, cur, twalk, tin>>

\* one run of main() (lines 17-87) with the values of the widgets
Rerun ==
    /\ ses.pc = "rerun"
    /\ \E schedule \in {SelectedSchedule(ses)} :
       \E rate_components \in {check_rate_components(schedule)} :
       \E usage_inputs \in {create_usage_inputs(ses, schedule, rate_components)} :
       \E after \in {process_calculation_request(ses, ses.selected_schedule_id,
                         schedule, usage_inputs, rate_components,
                         ses.event.calculate_pressed)} :
       \E shown \in {IF ResultsShown(after, ses.selected_schedule_id,
                                     ses.event.calculate_pressed)
                     THEN display_comparison_section(after, ses.selected_schedule_id,
                              usage_inputs, ses.event.selected,
                              ses.event.compare_pressed)
                     ELSE after} :
          ses' = [shown EXCEPT !.pc = "page", !.event = NoEvent]
    /\ UNCHANGED <<now, inc, flt, call, dist, cur, twalk, tin>>

SessionNext ==
    \/ SelectSchedule \/ EditUsage \/ PressCalculate
    \/ ChangeComparison \/ PressCompare \/ ResetAll \/ Rerun

SpecSession == SessionInit /\ [][SessionNext]_vars

OnPage == ses.pc = "page"

Compared == OnPage /\ ses.comparison_results # <<>>

\* C25: after any sequence of input edits and presses of "Calculate Bill
\* Estimate" and "Compare Rates", every entry of comparison_results (the
\* current bill at index 0 and each alternative schedule's bill) was computed
\* from the same usage_kwh, demand_kw, power_factor and billing_month.
C25_SameUsageValues ==
    Compared =>
        \A j, k \in 1..Len(ses.comparison_results) :
            (ses.comparison_results[j] # None /\ ses.comparison_results[k] # None)
                => Val(ses.comparison_results[j]).inputs
                       = Val(ses.comparison_results[k]).inputs

\* What does hold: the alternatives' bills, the entries after index 0, are
\* computed from one set of values, those on the page when "Compare Rates" was
\* pressed, and index 0 is the stored current bill.
AlternativesShareUsageValues ==
    Compared =>
        /\ ses.comparison_results[1] = ses.current_bill
        /\ \A j, k \in 2..Len(ses.comparison_results) :
              Val(ses.comparison_results[j]).inputs
                  = Val(ses.comparison_results[k]).inputs

C29_NoSelfComparison ==
    Compared =>
        /\ Len(ses.comparison_results) <= 4
        /\ \A j, k \in 1..Len(ses.comparison_results) :
              (j # k /\ ses.comparison_results[j] # None
                     /\ ses.comparison_results[k] # None)
                  => Val(ses.comparison_results[j]).schedule_id
                         # Val(ses.comparison_results[k]).schedule_id

\* What does hold: at most 4 entries, the alternatives are pairwise distinct,
\* and a press of "Compare Rates" leaves alternatives that differ from the
\* schedule selected at that moment.
ComparisonAlternativesDistinct ==
    Compared =>
        /\ Len(ses.comparison_results) <= 1 + MaxSelections
        /\ \A j, k \in 2..Len(ses.comparison_results) :
              j # k => Val(ses.comparison_results[j]).schedule_id
                           # Val(ses.comparison_results[k]).schedule_id

ComparePressExcludesSelected ==
    [][(ses.pc = "rerun" /\ ses'.comparison_results # <<>>
        /\ ses'.comparison_results # ses.comparison_results)
          => \A k \in 2..Len(ses'.comparison_results) :
                /\ Val(ses'.comparison_results[k]).schedule_id # ses'.selected_schedule_id
                /\ Val(ses'.comparison_results[k]).inputs
                      = InputsOf(create_usage_inputs(ses', SelectedSchedule(ses'),
                                    check_rate_components(SelectedSchedule(ses'))))]_vars

FullComparisonReached == Compared /\ Len(ses.comparison_results) = 1 + MaxSelections

====
